---------------------------- MODULE Spec2Model ----------------------------
(***************************************************************************)
(* A state-machine model of the stratum mining server with merge-mining    *)
(* support (stratum.cpp): the per-connection sessions, the shared cache of *)
(* work templates, the work-unit assembler GetWorkUnit, the request        *)
(* handlers run by stratum_read_cb and the BlockWatcher pass.              *)
(*                                                                         *)
(* Conventions.                                                            *)
(*  - A std::string is a sequence of one-character strings.                *)
(*  - A byte vector is a sequence of numbers 0..255.  A uint256 is a       *)
(*    number; hashes are injective encodings of what they hash.            *)
(*  - Every callback runs under cs_stratum, so each callback is one        *)
(*    atomic action; the functions it calls are operators that take and    *)
(*    return the records of the state they touch.                          *)
(*  - Difficulties are counted in units of 1/10000 (DiffFloor is 0.001).   *)
(*  - Times are seconds since the epoch and stay far below 2^32, so the    *)
(*    uint32_t and uint64_t conversions of the eviction pass lose nothing  *)
(*    (the clock starts past MaxAge: the cutoff does not wrap).            *)
(***************************************************************************)
EXTENDS Integers, Sequences, FiniteSets, TLC

(***************************************************************************)
(* Bounds of the model (not program constants).                            *)
(***************************************************************************)
MaxClients == 2
MaxTip == 2
MaxCacheTips == 32
MaxTicks == 2
MaxTxUpdates == 1
MaxCommit == 1
MaxBatch == 2
MaxOffset == 1
MaxParams == 7
MaxMinDiff == 24

(***************************************************************************)
(* Program constants.                                                      *)
(***************************************************************************)
MaxTemplates == 30
MaxAge == 900
RebuildDelay == 5
NonceLen == 12
En1Len == 8
En2Len == 4
HashLen == 32
CbHeaderLen == 4 + 1 + 32 + 4 + 1

NPOS == 0 - 1
\* A null pointer, boost::none, the zero uint256.
None == 0

Min(a, b) == IF a < b THEN a ELSE b
Max(a, b) == IF a > b THEN a ELSE b

Clients == 1 .. MaxClients

(***************************************************************************)
(* std::string helpers.  Positions are 0-based as in C++.                  *)
(***************************************************************************)
IsSpace(ch) == ch = " "

RECURSIVE Find(_, _, _)
Find(s, ch, start) ==
    IF start >= Len(s) THEN NPOS
    ELSE IF s[start + 1] = ch THEN start
    ELSE Find(s, ch, start + 1)

\* std::string(s, start, count): at most count characters from start.
Substr(s, start, count) == SubSeq(s, start + 1, Min(start + count, Len(s)))

\* std::string(s, start): everything from start.
SubstrFrom(s, start) == SubSeq(s, start + 1, Len(s))

RECURSIVE TrimLeft(_)
TrimLeft(s) ==
    IF s # <<>> /\ IsSpace(s[1]) THEN TrimLeft(Tail(s)) ELSE s

RECURSIVE TrimRight(_)
TrimRight(s) ==
    IF s # <<>> /\ IsSpace(s[Len(s)]) THEN TrimRight(SubSeq(s, 1, Len(s) - 1)) ELSE s

Trim(s) == TrimLeft(TrimRight(s))

(***************************************************************************)
(* Maps (std::map) are functions; << >> is the empty map.                  *)
(***************************************************************************)
EmptyMap == << >>
Put(m, k, v) == [x \in DOMAIN m \cup {k} |-> IF x = k THEN v ELSE m[x]]
Erase(m, K) == [x \in DOMAIN m \ K |-> m[x]]
Has(m, k) == k \in DOMAIN m

SetMin(S) == CHOOSE x \in S : \A y \in S : x <= y

\* The keys of a std::map in iteration (ascending) order.
RECURSIVE KeysInOrder(_)
KeysInOrder(S) ==
    IF S = {} THEN <<>>
    ELSE LET k == SetMin(S) IN <<k>> \o KeysInOrder(S \ {k})

(***************************************************************************)
(* Bytes.                                                                  *)
(***************************************************************************)
\* The len bytes of n, most significant first (n is below 2^31).
ToBytes(n, len) ==
    [i \in 1 .. len |-> IF len - i > 3 THEN 0 ELSE (n \div (256 ^ (len - i))) % 256]

\* The len bytes of n as integers are serialized: least significant first.
ToLE(n, len) ==
    [i \in 1 .. len |-> IF i > 4 THEN 0 ELSE (n \div (256 ^ (i - 1))) % 256]

Zeros(len) == [i \in 1 .. len |-> 0]

RECURSIVE Flatten(_)
Flatten(ss) == IF ss = <<>> THEN <<>> ELSE Head(ss) \o Flatten(Tail(ss))

(***************************************************************************)
(* Hashes, modelled as injective encodings of their input.                 *)
(***************************************************************************)
TipSpan == MaxTip + MaxCacheTips + 2
TxSpan == MaxTxUpdates + 2
SecretSpan == MaxClients + 2
CommitSpan == MaxCommit + 2

\* CBlock::GetHash of a fresh template: a function of the previous block, the
\* time and the transactions selected.
BlockHash(prev, nTime, txs) == 1 + prev + TipSpan * (txs + TxSpan * nTime)

\* ComputeMerkleMapRootFromBranch(value, {}, key) for a single commitment.
MerkleMapRoot(key, value) == key * CommitSpan + value

(***************************************************************************)
(* Scripts and the coinbase transaction.                                   *)
(***************************************************************************)
OP_FALSE == <<0>>

\* CScriptNum::serialize of a positive number: little-endian, with a zero
\* byte added when the top bit of the last byte is set.
RECURSIVE ScriptNumBytes(_)
ScriptNumBytes(n) ==
    IF n < 128 THEN <<n>>
    ELSE IF n < 256 THEN <<n, 0>>
    ELSE <<n % 256>> \o ScriptNumBytes(n \div 256)

\* CScript() << data for a vector shorter than OP_PUSHDATA1.
PushData(data) == <<Len(data)>> \o data

\* CScript() << int64: OP_0, OP_1..OP_16, or a pushed script number.
PushInt(n) ==
    IF n = 0 THEN <<0>>
    ELSE IF n >= 1 /\ n <= 16 THEN <<80 + n>>
    ELSE PushData(ScriptNumBytes(n))

\* GetScriptForDestination(addr): a script that names the address.
AddrCode(addr) == IF addr = <<"A">> THEN 65 ELSE IF addr = <<"B">> THEN 66 ELSE 0
GetScriptForDestination(addr) == <<118, 169, AddrCode(addr), 136, 172>>

\* The witness commitment output GenerateCoinbaseCommitment adds: it commits
\* to the witness hashes of every transaction but the coinbase, so to the
\* selected transactions and to the block-final transaction.
CommitHeader == <<106, 36, 170, 33, 169, 237>>
IsCommitment(out) ==
    Len(out.scriptPubKey) >= 6 /\ SubSeq(out.scriptPubKey, 1, 6) = CommitHeader
CommitmentOutput(txs, bf) ==
    [nValue |-> 0, scriptPubKey |-> CommitHeader \o ToBytes(1 + txs + TxSpan * bf, 4)]

\* Serialization of a transaction with one input, without witness
\* (SERIALIZE_TRANSACTION_NO_WITNESS): version, input count, prevout hash,
\* prevout index, script length, script, sequence, outputs, lock time.
SerOut(out) ==
    ToLE(out.nValue, 8) \o <<Len(out.scriptPubKey)>> \o out.scriptPubKey
SerializeNoWitness(tx) ==
    ToLE(tx.nVersion, 4) \o <<1>> \o Zeros(HashLen) \o <<255, 255, 255, 255>>
    \o <<Len(tx.scriptSig)>> \o tx.scriptSig \o <<255, 255, 255, 255>>
    \o <<Len(tx.vout)>> \o Flatten([i \in 1 .. Len(tx.vout) |-> SerOut(tx.vout[i])])
    \o ToLE(tx.nLockTime, 4)

\* CTransaction::GetHash: the double SHA-256 of the no-witness serialization,
\* injective, so the serialization stands for it.
TxHash(tx) == SerializeNoWitness(tx)

(***************************************************************************)
(* The state.                                                              *)
(*                                                                         *)
(* The node around the server: the clock, the chain, the mempool and the   *)
(* upstream merge-mining endpoints.                                        *)
(***************************************************************************)
VARIABLES
    now,            \* GetTime(), seconds
    offset,         \* GetAdjustedTime() - GetTime(), the network time offset
    chainTip,       \* chainActive.Tip(), a block index (never null)
    txUpdated,      \* mempool.GetTransactionsUpdated()
    aux,            \* chain id -> the commitment its endpoint asks for (0: no work)
    ssw,            \* what GetSecondStageWork returns
    witness,        \* IsWitnessEnabled at the tip
    hasbf,          \* whether templates carry a block-final transaction
    baseHeight,     \* height of block index 0
    ticks           \* how often the clock has advanced (bounds the model)

(***************************************************************************)
(* The server: the globals of stratum.cpp and the statics of GetWorkUnit.  *)
(***************************************************************************)
VARIABLES
    subscriptions,              \* connection -> StratumClient
    work_templates,             \* job_id -> StratumWork
    second_stages,              \* upstream job id -> (chain id, SecondStageWork)
    tip,                        \* static CBlockIndex* tip
    job_id,                     \* static uint256 job_id
    transactions_updated_last,  \* static
    last_update_time,           \* static
    bound_listeners,            \* the listeners bound by StratumBindAddresses
    listeners,                  \* libevent's side: listener -> enabled, disabled, freed
    bufferevents,               \* libevent's side: connection -> the times its
                                \* bufferevent was freed (-1: it has none)
    g_shutdown,
    block_watcher_thread,       \* "running" or "exited"
    txns_updated_last,          \* the local of BlockWatcher
    cs_stratum,                 \* the thread that holds the lock, or "free"
    at,                         \* thread -> "idle", or "body" inside a locked scope
    hung,                       \* a callback that never returns holds cs_stratum
    crashed                     \* the process was terminated

(***************************************************************************)
(* What the last callback did: the frames it appended to each connection's *)
(* output buffer (the buffer is drained between callbacks), the calls it   *)
(* made to the node (ProcessNewBlock, SubmitAuxChainShare, ...), and for   *)
(* each connection the notifies sent to it so far.                         *)
(***************************************************************************)
VARIABLES out, ev, sent

envVars == <<now, offset, chainTip, txUpdated, aux, ssw, witness, hasbf, baseHeight, ticks>>
srvVars == <<subscriptions, work_templates, second_stages, tip, job_id,
             transactions_updated_last, last_update_time, bound_listeners,
             listeners, bufferevents, g_shutdown, hung, crashed,
             block_watcher_thread, txns_updated_last, cs_stratum, at>>
\* What no callback but the watcher's loop writes.
threadVars == <<block_watcher_thread, txns_updated_last, cs_stratum, at>>
obsVars == <<out, ev, sent>>
vars == <<envVars, srvVars, obsVars>>

Chains == {1, 2}
\* Params().DefaultAuxPowPath()
DefaultAuxPowPath == 1
\* chain_names of the merge-mining client
chain_names == [a |-> 1, b |-> 2]

\* The environment as GetWorkUnit reads it.
Env ==
    [now |-> now, offset |-> offset, chainTip |-> chainTip, txUpdated |-> txUpdated,
     aux |-> aux, ssw |-> ssw, witness |-> witness, hasbf |-> hasbf,
     baseHeight |-> baseHeight]

\* The globals GetWorkUnit and the handlers read and write.
Globals ==
    [work_templates |-> work_templates, second_stages |-> second_stages,
     tip |-> tip, job_id |-> job_id,
     transactions_updated_last |-> transactions_updated_last,
     last_update_time |-> last_update_time]

(***************************************************************************)
(* StratumClient.                                                          *)
(***************************************************************************)
NoPair == [some |-> FALSE, first |-> 0, second |-> 0]
SomePair(a, b) == [some |-> TRUE, first |-> a, second |-> b]

\* StratumClient(listener, socket, bev, from); GenSecret draws m_secret at
\* random: distinct connections get distinct secrets.
StratumClient(c) ==
    [m_secret |-> c,
     m_client |-> <<>>,
     m_authorized |-> FALSE,
     m_addr |-> <<>>,
     m_mmauth |-> EmptyMap,
     m_mmwork |-> EmptyMap,
     m_mindiff |-> 0,
     m_version_rolling_mask |-> 0,
     m_last_tip |-> None,
     m_last_second_stage |-> NoPair,
     m_send_work |-> FALSE,
     m_supports_extranonce |-> FALSE]

\* ExtraNonce1 if the job id were hashed in whatever the session asked for.
ExtraNonce1PerJob(client, job) ==
    ToBytes(client.m_secret + SecretSpan * (1 + job), En1Len)

\* StratumClient::ExtraNonce1: the first 8 bytes of SHA256(secret) or of
\* SHA256(secret || job_id).
ExtraNonce1(client, job) ==
    ToBytes(IF client.m_supports_extranonce
            THEN client.m_secret + SecretSpan * (1 + job)
            ELSE client.m_secret, En1Len)

(***************************************************************************)
(* Block templates.                                                        *)
(***************************************************************************)
BlockVersion == 2 ^ 29
TemplateBits == 2 ^ 29 + 2 ^ 23 - 1
\* GetDifficulty(nBits) in units of 1/10000: the easiest target rounds to 0.
GetDifficulty(nBits) == IF nBits = TemplateBits THEN 0 ELSE 10000

\* BlockMerkleBranch(block, 0): the hashes beside the coinbase, which depend
\* on the selected transactions and on the block-final transaction.
BlockMerkleBranch(txs, withbf, bf) ==
    IF txs = 0 /\ ~withbf THEN <<>> ELSE <<1 + txs + TxSpan * bf>>

\* ComputeMerkleRootFromBranch(leaf, branch, 0), injective.
ComputeMerkleRootFromBranch(leaf, branch) == [leaf |-> leaf, branch |-> branch]

\* BlockAssembler(Params()).CreateNewBlock(CScript() << OP_FALSE) at the
\* current tip: the coinbase pays to the placeholder script, its scriptSig
\* holds the height, the time is the adjusted time.
CreateNewBlock(E) ==
    LET height == E.baseHeight + E.chainTip + 1 IN
    [hashPrevBlock |-> E.chainTip,
     nVersion |-> BlockVersion,
     nBits |-> TemplateBits,
     nTime |-> E.now + E.offset,
     txs |-> E.txUpdated,
     has_block_final_tx |-> E.hasbf,
     bf |-> 0,
     cb |-> [nVersion |-> 2,
             scriptSig |-> PushInt(height) \o <<0>>,
             vout |-> <<[nValue |-> 50, scriptPubKey |-> OP_FALSE]>>
                      \o (IF E.witness THEN <<CommitmentOutput(E.txUpdated, 0)>> ELSE <<>>),
             nLockTime |-> 0]]

\* StratumWork(prev_block_index, height, block_template)
StratumWork(prev_block_index, height, block, E) ==
    [m_prev_block_index |-> prev_block_index,
     m_block_template |-> block,
     m_cb_branch |-> IF ~E.witness
                     THEN BlockMerkleBranch(block.txs, block.has_block_final_tx, block.bf)
                     ELSE <<>>,
     m_is_witness_enabled |-> E.witness,
     m_height |-> height]

\* UpdateBlockFinalTransaction(bf, mmroot): writes the commitment into the
\* block-final transaction; true when that changed it.
UpdateBlockFinalTransaction(bf, mmroot) == [bf |-> mmroot, modified |-> bf # mmroot]

RECURSIVE DropCommitments(_)
DropCommitments(vout) ==
    IF vout = <<>> THEN <<>>
    ELSE IF IsCommitment(Head(vout)) THEN DropCommitments(Tail(vout))
    ELSE <<Head(vout)>> \o DropCommitments(Tail(vout))

\* UpdateSegwitCommitment: erase the commitments of the coinbase, generate
\* the commitment of the block with cb and bf in place, recompute the branch.
UpdateSegwitCommitment(current_work, cb, bf) ==
    LET block == current_work.m_block_template IN
    [cb |-> [cb EXCEPT !.vout = DropCommitments(cb.vout)
                                \o <<CommitmentOutput(block.txs, bf)>>],
     bf |-> bf,
     cb_branch |-> BlockMerkleBranch(block.txs, block.has_block_final_tx, bf)]

\* GetMergeMineWork(mmauth): the work of the chains the miner subscribed to
\* that have work: chain id -> AuxWork.
GetMergeMineWork(mmauth, E) ==
    [ch \in {x \in DOMAIN mmauth : E.aux[x] # 0} |->
        [commit |-> E.aux[ch], bits |-> TemplateBits, bias |-> 0]]

\* AuxWorkMerkleRoot: zero for no work, an error for more than one chain.
AuxWorkMerkleRootThrows(mmwork) == Cardinality(DOMAIN mmwork) > 1
AuxWorkMerkleRoot(mmwork) ==
    IF DOMAIN mmwork = {} THEN None
    ELSE LET key == SetMin(DOMAIN mmwork) IN MerkleMapRoot(key, mmwork[key].commit)

\* ClampDifficulty without its floor.
ClampDifficultyNoFloor(client, diff) == IF client.m_mindiff > 0 THEN client.m_mindiff ELSE diff

\* ClampDifficulty
DiffFloor == 10
ClampDifficulty(client, diff) ==
    Max(IF client.m_mindiff > 0 THEN client.m_mindiff ELSE diff, DiffFloor)

(***************************************************************************)
(* Frames appended to a connection's output buffer.                        *)
(***************************************************************************)
SetExtranonceFrame(en1) == [kind |-> "mining.set_extranonce", extranonce1 |-> en1]
SetDifficultyFrame(diff) == [kind |-> "mining.set_difficulty", diff |-> diff]
\* JSONRPCReply(result, error, id)
ReplyFrame(result, data, id) ==
    [kind |-> "reply", result |-> result, error |-> "none", data |-> data, id |-> id]
ErrorFrame(code, id) ==
    [kind |-> "reply", result |-> "null", error |-> code, data |-> <<>>, id |-> id]

\* What a function that may throw returns: the state it leaves and either
\* its value or the error it threw.
Return(g, client, frames) ==
    [g |-> g, client |-> client, threw |-> "none", frames |-> frames]
Throw(g, client, code) ==
    [g |-> g, client |-> client, threw |-> code, frames |-> <<>>]

\* GetExtraNonceRequest that does not look at m_supports_extranonce.
GetExtraNonceRequestAlways(client, job) == <<SetExtranonceFrame(ExtraNonce1(client, job))>>

\* GetExtraNonceRequest
GetExtraNonceRequest(client, job) ==
    IF client.m_supports_extranonce
    THEN <<SetExtranonceFrame(ExtraNonce1(client, job))>>
    ELSE <<>>

(***************************************************************************)
(* GetWorkUnit, the eviction pass of a rebuild.                            *)
(***************************************************************************)
\* The loop over work_templates without the exception for the current job.
RECURSIVE ScanTemplatesAll(_, _, _, _, _)
ScanTemplatesAll(keys, templates, current, update_time, acc) ==
    IF keys = <<>> THEN acc
    ELSE LET k == Head(keys)
             nTime == templates[k].m_block_template.nTime
             a1 == IF nTime < update_time - MaxAge
                   THEN [acc EXCEPT !.old = acc.old \cup {k}] ELSE acc
             a2 == IF nTime <= a1.oldest_nTime
                   THEN [a1 EXCEPT !.oldest = SomePair(k, 0), !.oldest_nTime = nTime]
                   ELSE a1
         IN ScanTemplatesAll(Tail(keys), templates, current, update_time, a2)

\* The loop over work_templates: the outdated job ids and the oldest job.
RECURSIVE ScanTemplates(_, _, _, _, _)
ScanTemplates(keys, templates, current, update_time, acc) ==
    IF keys = <<>> THEN acc
    ELSE LET k == Head(keys)
             nTime == templates[k].m_block_template.nTime
             a1 == IF nTime < update_time - MaxAge
                   THEN [acc EXCEPT !.old = acc.old \cup {k}] ELSE acc
             a2 == IF nTime <= a1.oldest_nTime
                   THEN [a1 EXCEPT !.oldest = SomePair(k, 0), !.oldest_nTime = nTime]
                   ELSE a1
         IN IF k = current
            THEN ScanTemplates(Tail(keys), templates, current, update_time, acc)
            ELSE ScanTemplates(Tail(keys), templates, current, update_time, a2)

\* The erasures after the loop: the outdated entries, then the oldest one if
\* more than 30 are left.
DropAndCap(m, acc) ==
    LET Cap(kept) ==
            IF Cardinality(DOMAIN kept) > MaxTemplates /\ acc.oldest.some
            THEN Erase(kept, {acc.oldest.first})
            ELSE kept
    IN Cap(Erase(m, acc.old))

EvictTemplates(templates, current, update_time) ==
    DropAndCap(templates,
               ScanTemplates(KeysInOrder(DOMAIN templates), templates, current, update_time,
                             [old |-> {}, oldest |-> NoPair, oldest_nTime |-> update_time]))

\* The same loop over the client's merge-mining work, on millisecond stamps.
RECURSIVE ScanMmwork(_, _, _, _)
ScanMmwork(keys, mmwork, cutoff, acc) ==
    IF keys = <<>> THEN acc
    ELSE LET k == Head(keys)
             stamp == mmwork[k].first
             a1 == IF stamp < cutoff
                   THEN [acc EXCEPT !.old = acc.old \cup {k}] ELSE acc
             a2 == IF stamp <= a1.oldest_stamp
                   THEN [a1 EXCEPT !.oldest = SomePair(k, 0), !.oldest_stamp = stamp]
                   ELSE a1
         IN ScanMmwork(Tail(keys), mmwork, cutoff, a2)

EvictMmwork(mmwork, update_time) ==
    DropAndCap(mmwork,
               ScanMmwork(KeysInOrder(DOMAIN mmwork), mmwork, (update_time - MaxAge) * 1000,
                          [old |-> {}, oldest |-> NoPair, oldest_stamp |-> update_time * 1000]))

\* The condition of a rebuild with the delay counted from its first second.
NeedsRebuildEarly(g, E) ==
    \/ g.tip # E.chainTip
    \/ /\ E.txUpdated # g.transactions_updated_last
       /\ E.now - g.last_update_time >= RebuildDelay
    \/ ~Has(g.work_templates, g.job_id)

\* The condition of a rebuild.
NeedsRebuild(g, E) ==
    \/ g.tip # E.chainTip
    \/ /\ E.txUpdated # g.transactions_updated_last
       /\ E.now - g.last_update_time > RebuildDelay
    \/ ~Has(g.work_templates, g.job_id)

\* The rebuild: a new template under its hash, then the eviction passes.
Rebuild(g, client, E) ==
    LET Insert(new_work, new_id) ==
            [g |-> [g EXCEPT
                      !.job_id = new_id,
                      !.work_templates =
                          EvictTemplates(
                              Put(g.work_templates, new_id,
                                  StratumWork(E.chainTip, E.baseHeight + E.chainTip + 1,
                                              new_work, E)),
                              new_id, E.now),
                      !.tip = E.chainTip,
                      !.transactions_updated_last = E.txUpdated,
                      !.last_update_time = E.now],
             client |-> [client EXCEPT !.m_mmwork = EvictMmwork(client.m_mmwork, E.now)]]
        Hashed(new_work) ==
            Insert(new_work, BlockHash(new_work.hashPrevBlock, new_work.nTime, new_work.txs))
    IN Hashed(CreateNewBlock(E))

(***************************************************************************)
(* GetWorkUnit.                                                            *)
(***************************************************************************)
NotifyFrame(path, job, has_mm, mmroot, prev, cb1, cb2, branch, nVersion, nBits, nTime, clean) ==
    [kind |-> "mining.notify", path |-> path, job_id |-> job,
     has_merge_mining |-> has_mm, mmroot |-> mmroot, hashPrevBlock |-> prev,
     cb1 |-> cb1, cb2 |-> cb2, branch |-> branch,
     nVersion |-> nVersion, nBits |-> nBits, nTime |-> nTime, clean_jobs |-> clean]

\* WorkFrames with the set_extranonce after the pair.
WorkFramesLate(client, job, set_difficulty, mining_notify) ==
    <<set_difficulty, mining_notify>> \o GetExtraNonceRequest(client, job)

\* The frames of one work emission, in the order they are concatenated.
WorkFrames(client, job, set_difficulty, mining_notify) ==
    GetExtraNonceRequest(client, job) \o <<set_difficulty, mining_notify>>

\* clean_jobs of the second-stage path: false when the session was last
\* handed second-stage work of the same chain on the same previous block.
SecondStageClean(client, second_stage) ==
    ~(/\ client.m_last_second_stage.some
      /\ client.m_last_second_stage.first = second_stage.first
      /\ client.m_last_second_stage.second = second_stage.second.hashPrevBlock)

\* The second-stage path: the work of the upstream endpoint is passed on.
SecondStagePath(g, client, E) ==
    LET second_stage == E.ssw
        work == second_stage.second
        diff == ClampDifficulty(client, work.diff)
        clean == SecondStageClean(client, second_stage)
        mining_notify == NotifyFrame("second", work.job_id, FALSE, None,
                                     work.hashPrevBlock, work.cb1, work.cb2,
                                     work.cb_branch, work.nVersion, work.nBits,
                                     work.nTime, clean)
        client2 == [client EXCEPT !.m_last_second_stage =
                                      SomePair(second_stage.first, work.hashPrevBlock)]
    IN Return([g EXCEPT !.second_stages =
                   Put(g.second_stages, work.job_id,
                       [first |-> second_stage.first, second |-> work])],
              client2,
              WorkFrames(client2, second_stage.first, SetDifficultyFrame(diff),
                         mining_notify))

\* The split of the serialized coinbase around the extranonce: cb1 ends where
\* the 12-byte nonce starts, cb2 starts where the script ends.
CoinbaseSplitPos(ds) == CbHeaderLen + ds[CbHeaderLen]
\* SplitCoinbase with cb1 running up to the extranonce2 placeholder.
SplitCoinbaseLong(ds) ==
    [cb1 |-> SubSeq(ds, 1, CoinbaseSplitPos(ds) - En2Len),
     cb2 |-> SubSeq(ds, CoinbaseSplitPos(ds) + 1, Len(ds))]

SplitCoinbase(ds) ==
    LET pos == CoinbaseSplitPos(ds) IN
    [cb1 |-> SubSeq(ds, 1, pos - En2Len - En1Len), cb2 |-> SubSeq(ds, pos + 1, Len(ds))]

\* The coinbase as GetWorkUnit customizes it: the height and the nonce in the
\* script, the miner's address in place of the placeholder script.
CustomizeCoinbase(cb, height, nonce, addr) ==
    [cb EXCEPT !.scriptSig = PushInt(height) \o PushData(nonce),
               !.vout[1].scriptPubKey =
                   IF @ = OP_FALSE THEN GetScriptForDestination(addr) ELSE @]

\* clean_jobs that is always set
CleanJobsAlways(client, current_tip) == TRUE

\* clean_jobs of the primary path
CleanJobs(client, current_tip) == client.m_last_tip # current_tip

\* The merge-mining step of the primary path: the work of the chains the
\* miner named, its root, the bundle kept for the shares to come, and the
\* commitment written into the block-final transaction.
MergeMine(client, block, E) ==
    LET Commit(mmwork, mmroot) ==
            [threw |-> FALSE,
             client |-> IF DOMAIN mmwork # {} /\ ~Has(client.m_mmwork, mmroot)
                        THEN [client EXCEPT !.m_mmwork =
                                 Put(@, mmroot, [first |-> E.now * 1000, second |-> mmwork])]
                        ELSE client,
             mmroot |-> mmroot,
             upd |-> IF DOMAIN mmwork # {} THEN UpdateBlockFinalTransaction(block.bf, mmroot)
                     ELSE [bf |-> block.bf, modified |-> FALSE]]
        Root(mmwork) ==
            IF AuxWorkMerkleRootThrows(mmwork)
            THEN [threw |-> TRUE, client |-> client, mmroot |-> None,
                  upd |-> [bf |-> block.bf, modified |-> FALSE]]
            ELSE Commit(mmwork, AuxWorkMerkleRoot(mmwork))
    IN Root(IF block.has_block_final_tx THEN GetMergeMineWork(client.m_mmauth, E)
            ELSE EmptyMap)

\* UpdateTime on the header of the cached template itself.
UpdateTimeInPlace(g, E) ==
    LET nTime == Max(g.work_templates[g.job_id].m_block_template.nTime, E.now + E.offset)
    IN [g |-> [g EXCEPT !.work_templates[g.job_id].m_block_template.nTime = nTime],
        nTime |-> nTime]

\* CBlockHeader blkhdr(current_work.GetBlock()); UpdateTime(&blkhdr, ...):
\* the time is refreshed in a copy of the header, the cache stays as it is.
UpdateTime(g, E) ==
    [g |-> g,
     nTime |-> Max(g.work_templates[g.job_id].m_block_template.nTime, E.now + E.offset)]

\* The primary path from the merge-mining step on: the template is in the
\* cache.
AssembleWork(g, client, E) ==
    LET current_work == g.work_templates[g.job_id]
        block == current_work.m_block_template
        blkhdr == UpdateTime(g, E)
        nTime == blkhdr.nTime
        Emit(mm, seg, split) ==
            Return(blkhdr.g, [mm.client EXCEPT !.m_last_tip = g.tip],
                   WorkFrames(mm.client, g.job_id,
                              SetDifficultyFrame(
                                  ClampDifficulty(mm.client, GetDifficulty(block.nBits))),
                              NotifyFrame("primary", g.job_id, mm.upd.modified, mm.mmroot,
                                          block.hashPrevBlock, split.cb1, split.cb2,
                                          seg.cb_branch, block.nVersion, block.nBits, nTime,
                                          CleanJobs(mm.client, g.tip))))
        Split(mm, seg, ds) ==
            IF Len(ds) < CbHeaderLen \/ Len(ds) < CoinbaseSplitPos(ds)
            THEN Throw(g, mm.client, "internal")
            ELSE Emit(mm, seg, SplitCoinbase(ds))
        Customize(mm, seg) ==
            Split(mm, seg,
                  SerializeNoWitness(
                      CustomizeCoinbase(seg.cb, current_work.m_height,
                                        ExtraNonce1(mm.client, g.job_id) \o Zeros(En2Len),
                                        mm.client.m_addr)))
        Segwit(mm) ==
            IF mm.threw THEN Throw(g, client, "internal")
            ELSE Customize(mm, IF current_work.m_is_witness_enabled
                               THEN UpdateSegwitCommitment(current_work, block.cb, mm.upd.bf)
                               ELSE [cb |-> block.cb, bf |-> mm.upd.bf,
                                     cb_branch |-> current_work.m_cb_branch])
    IN \* work_templates[job_id] of a job that is no key would be an empty
       \* StratumWork, whose block has no vtx[0] to read.
       IF ~Has(g.work_templates, g.job_id) THEN Throw(g, client, "internal")
       ELSE Segwit(MergeMine(client, block, E))

PrimaryPath(g, client, E) ==
    LET Assemble(r) == AssembleWork(r.g, r.client, E)
    IN Assemble(IF NeedsRebuild(g, E) THEN Rebuild(g, client, E)
                ELSE [g |-> g, client |-> client])

\* GetWorkUnit without the check of the session's authorization.
GetWorkUnitOpen(g, client, E, ready) ==
    IF ready = "noconn" THEN Throw(g, client, "notconnected")
    ELSE IF ready = "ibd" THEN Throw(g, client, "ibd")
    ELSE IF E.ssw.some THEN SecondStagePath(g, client, E)
    ELSE PrimaryPath([g EXCEPT !.second_stages = EmptyMap],
                     [client EXCEPT !.m_last_second_stage = NoPair], E)

\* ready: "ok", or why the node cannot hand out work.
GetWorkUnit(g, client, E, ready) ==
    IF ready = "noconn" THEN Throw(g, client, "notconnected")
    ELSE IF ready = "ibd" THEN Throw(g, client, "ibd")
    ELSE IF ~client.m_authorized THEN Throw(g, client, "request")
    ELSE IF E.ssw.some THEN SecondStagePath(g, client, E)
    ELSE PrimaryPath([g EXCEPT !.second_stages = EmptyMap],
                     [client EXCEPT !.m_last_second_stage = NoPair], E)

(***************************************************************************)
(* Hex strings and 32-bit words.                                           *)
(***************************************************************************)
HexDigits == <<"0", "1", "2", "3", "4", "5", "6", "7", "8", "9", "a", "b", "c", "d", "e", "f">>
HexTable ==
    [ch \in {"0", "1", "2", "3", "4", "5", "6", "7", "8", "9", "a", "b", "c", "d", "e", "f"} |->
        CHOOSE v \in 0 .. 15 : HexDigits[v + 1] = ch]
IsHexChar(ch) == ch \in DOMAIN HexTable
HexVal(ch) == HexTable[ch]

\* HexStr: two digits a byte, in the order of the bytes.
HexStr(bytes) ==
    [i \in 1 .. 2 * Len(bytes) |->
        IF i % 2 = 1 THEN HexDigits[(bytes[(i + 1) \div 2] \div 16) + 1]
        ELSE HexDigits[(bytes[i \div 2] % 16) + 1]]

\* IsHex: not empty, an even number of characters, all of them hex digits.
IsHex(str) ==
    /\ Len(str) > 0
    /\ Len(str) % 2 = 0
    /\ \A i \in 1 .. Len(str) : IsHexChar(str[i])

\* ParseHex: reads pairs of hex digits and stops at the first character that
\* is none (white space between pairs is skipped).
RECURSIVE ParseHexFrom(_, _, _)
ParseHexFrom(str, i, acc) ==
    IF i > Len(str) THEN acc
    ELSE IF IsSpace(str[i]) THEN ParseHexFrom(str, i + 1, acc)
    ELSE IF i + 1 > Len(str) \/ ~IsHexChar(str[i]) \/ ~IsHexChar(str[i + 1]) THEN acc
    ELSE ParseHexFrom(str, i + 2, Append(acc, HexVal(str[i]) * 16 + HexVal(str[i + 1])))
ParseHex(str) ==
    IF IsHex(str)
    THEN [i \in 1 .. Len(str) \div 2 |-> HexVal(str[2 * i - 1]) * 16 + HexVal(str[2 * i])]
    ELSE ParseHexFrom(str, 1, <<>>)

\* The number whose bytes, most significant first, these are.
RECURSIVE FromBytesTo(_, _)
FromBytesTo(bytes, n) ==
    IF n = 0 THEN 0 ELSE FromBytesTo(bytes, n - 1) * 256 + bytes[n]
FromBytes(bytes) == FromBytesTo(bytes, Len(bytes))

\* HexInt4 with the least significant byte first.
HexInt4Reversed(val) == HexStr(ToLE(val, 4))

\* HexInt4: the four bytes of val, most significant first.
HexInt4(val) == HexStr(ToBytes(val, 4))

RECURSIVE BitAnd(_, _)
BitAnd(a, b) ==
    IF a = 0 \/ b = 0 THEN 0
    ELSE (a % 2) * (b % 2) + 2 * BitAnd(a \div 2, b \div 2)

\* a & ~b on 32-bit words
BitAndNot(a, b) == a - BitAnd(a, b)
\* x | y for words with no bit in common
BitOrDisjoint(x, y) == x + y

\* 0x1fffe000
VersionRollingMask == 2 ^ 29 - 2 ^ 13

(***************************************************************************)
(* JSON values (UniValue): a type and a payload.  A string's payload is    *)
(* its characters, an array's its elements, an object's a map from names,  *)
(* a number's the number.                                                  *)
(***************************************************************************)
NullUniValue == [t |-> "null", payload |-> <<>>]
Str(chars) == [t |-> "str", payload |-> chars]
Num(n) == [t |-> "num", payload |-> n]
Arr(elems) == [t |-> "arr", payload |-> elems]
Obj(map) == [t |-> "obj", payload |-> map]

\* params[i] with i counted from 0: null past the end.
At(params, i) == IF i < Len(params) THEN params[i + 1] ELSE NullUniValue

\* find_value(obj, name)
FindValue(obj, name) == IF name \in DOMAIN obj.payload THEN obj.payload[name] ELSE NullUniValue

\* The value of a parse, or the error it throws: "invalid_parameter" for a
\* JSONRPCError(RPC_INVALID_PARAMETER), "internal" for a std::exception
\* (which stratum_read_cb answers with RPC_INTERNAL_ERROR).
Value(v) == [threw |-> "none", v |-> v]
Error(code) == [threw |-> code, v |-> 0]

\* ParseHexV
ParseHexV(val) ==
    IF val.t = "str" /\ IsHex(val.payload) THEN Value(ParseHex(val.payload))
    ELSE Error("invalid_parameter")

\* ParseHexInt4 without its check of the length.
ParseHexInt4Any(val) ==
    LET Word(vch) == IF vch.threw # "none" THEN vch ELSE Value(FromBytes(vch.v))
    IN Word(ParseHexV(val))

\* The uint32_t with these four bytes, most significant first.  A word with
\* its top bit set is written as the negative integer with the same 32 bits,
\* so that every word is an integer the checker can hold.
Word32(vch) ==
    (IF vch[1] >= 128 THEN vch[1] - 256 ELSE vch[1]) * 2 ^ 24
        + vch[2] * 2 ^ 16 + vch[3] * 2 ^ 8 + vch[4]

\* ParseHexInt4
ParseHexInt4(val) ==
    LET Word(vch) ==
            IF vch.threw # "none" THEN vch
            ELSE IF Len(vch.v) # 4 THEN Error("invalid_parameter")
            ELSE Value(Word32(vch.v))
    IN Word(ParseHexV(val))

\* ParseUInt256
ParseUInt256(val) ==
    LET Hash(vch) == IF Len(vch) # HashLen THEN Error("internal") ELSE Value(FromBytes(vch))
    IN IF val.t # "str" THEN Error("internal") ELSE Hash(ParseHex(val.payload))

\* The hex of a uint256 as GetWorkUnit prints it.
HexOfUInt256(n) == HexStr(ToBytes(n, HashLen))

\* BoundParams without its upper bound.
BoundParamsLoose(params, min, max) == Len(params) >= min

\* BoundParams
BoundParams(params, min, max) == Len(params) >= min /\ Len(params) <= max

(***************************************************************************)
(* The request handlers.  A handler returns the state it leaves, what it   *)
(* answers (or the error it throws), the calls it made to the node and the *)
(* shares it logged; hang says that it never returns.                      *)
(***************************************************************************)
Done(g, client, result, data, calls, shares) ==
    [g |-> g, client |-> client, threw |-> "none", result |-> result, data |-> data,
     calls |-> calls, shares |-> shares, hang |-> FALSE]
Raised(g, client, code) ==
    [g |-> g, client |-> client, threw |-> code, result |-> "null", data |-> <<>>,
     calls |-> <<>>, shares |-> <<>>, hang |-> FALSE]
Hangs(g, client) ==
    [g |-> g, client |-> client, threw |-> "none", result |-> "null", data |-> <<>>,
     calls |-> <<>>, shares |-> <<>>, hang |-> TRUE]

\* stratum_mining_subscribe
stratum_mining_subscribe(g, client, params) ==
    IF ~BoundParams(params, 0, 2) THEN Raised(g, client, "invalid_parameter")
    ELSE IF Len(params) >= 1 /\ At(params, 0).t # "str" THEN Raised(g, client, "internal")
    ELSE LET client2 == IF Len(params) >= 1
                        THEN [client EXCEPT !.m_client = At(params, 0).payload] ELSE client
         IN Done(g, client2, "subscribe",
                 [extranonce1 |-> HexStr(ExtraNonce1(client2, None)),
                  extranonce2_size |-> En2Len],
                 <<>>, <<>>)

\* CBitcoinAddress(str).IsValid()
ValidAddresses == {<<"A">>, <<"B">>}
IsValidAddress(str) == str \in ValidAddresses

\* The loop of stratum_mining_authorize that cuts the password at its
\* commas.  An option that is empty once trimmed is skipped with `continue`,
\* which leaves start where it was: the loop then never ends.
RECURSIVE SplitOptions(_, _, _)
SplitOptions(password, start, opts) ==
    LET pos == Find(password, ",", start) IN
    IF pos = NPOS
    THEN LET opt == Trim(SubstrFrom(password, start)) IN
         [hang |-> FALSE, opts |-> IF opt # <<>> THEN Append(opts, opt) ELSE opts]
    ELSE LET opt == Trim(Substr(password, start, pos)) IN
         IF opt = <<>> THEN [hang |-> TRUE, opts |-> opts]
         ELSE SplitOptions(password, pos + 1, Append(opts, opt))

IsChainName(key) == Len(key) = 1 /\ key[1] \in DOMAIN chain_names

\* memcmp(chainid.begin()+8, zero.data(), 24) == 0
TailIsZero(chainid) == \A i \in 9 .. HashLen : ToBytes(chainid, HashLen)[i] = 0

\* One option of the password: name=user[:pass], chainid=user[:pass], or an
\* address for the default chain.
AddOption(mmauth, opt) ==
    LET Auth(value) ==
            LET colon == Find(value, ":", 0) IN
            IF colon # NPOS THEN <<Substr(value, 0, colon), SubstrFrom(value, colon + 1)>>
            ELSE <<value, <<>>>>
        ByChainId(chainid, auth) ==
            IF chainid.threw # "none" THEN Error(chainid.threw)
            ELSE IF TailIsZero(chainid.v) \/ Has(mmauth, chainid.v) THEN Value(mmauth)
            ELSE Value(Put(mmauth, chainid.v, auth))
        KeyValue(key, auth) ==
            IF IsChainName(key) THEN Value(Put(mmauth, chain_names[key[1]], auth))
            ELSE ByChainId(ParseUInt256(Str(key)), auth)
        Keyed(pos) ==
            IF pos # NPOS
            THEN KeyValue(TrimRight(Substr(opt, 0, pos)), Auth(TrimLeft(SubstrFrom(opt, pos + 1))))
            ELSE IF IsValidAddress(opt) /\ ~Has(mmauth, DefaultAuxPowPath)
            THEN Value(Put(mmauth, DefaultAuxPowPath, <<opt, <<"x">>>>))
            ELSE Value(mmauth)
    IN Keyed(Find(opt, "=", 0))

RECURSIVE AddOptions(_, _)
AddOptions(mmauth, opts) ==
    LET Rest(r) == IF r.threw # "none" THEN r ELSE AddOptions(r.v, Tail(opts))
    IN IF opts = <<>> THEN Value(mmauth) ELSE Rest(AddOption(mmauth, Head(opts)))

\* boost::lexical_cast<double> of a decimal number, in units of 1/10000.
IsDigit(ch) == ch \in {"0", "1", "2", "3", "4", "5", "6", "7", "8", "9"}
RECURSIVE DigitsValue(_)
DigitsValue(str) ==
    IF str = <<>> THEN 0
    ELSE DigitsValue(SubSeq(str, 1, Len(str) - 1)) * 10 + HexVal(str[Len(str)])
LexicalCastDouble(str) ==
    LET Cast(whole, frac) ==
            IF whole \o frac = <<>> \/ \E i \in 1 .. Len(whole \o frac) : ~IsDigit((whole \o frac)[i])
            THEN Error("internal")
            ELSE Value(DigitsValue(whole) * 10000
                       + DigitsValue(SubSeq(frac \o <<"0", "0", "0", "0">>, 1, 4)))
        Parts(dot) ==
            IF dot = NPOS THEN Cast(str, <<>>)
            ELSE Cast(Substr(str, 0, dot), SubstrFrom(str, dot + 1))
    IN Parts(Find(str, ".", 0))

\* stratum_mining_authorize
\* The map of a session's merge-mining credentials as the calls that
\* register them.
Registered(mmauth) ==
    LET chains == KeysInOrder(DOMAIN mmauth) IN
    [i \in 1 .. Len(chains) |->
        [call |-> "RegisterMergeMineClient", chain |-> chains[i],
         username |-> mmauth[chains[i]][1], password |-> mmauth[chains[i]][2]]]

stratum_mining_authorize(g, client, params) ==
    LET Grant(username, mmauth, mindiff) ==
            IF mmauth.threw # "none" THEN Raised(g, client, mmauth.threw)
            ELSE IF mindiff.threw # "none" THEN Raised(g, client, mindiff.threw)
            ELSE IF ~IsValidAddress(username) THEN Raised(g, client, "invalid_parameter")
            ELSE Done(g, [client EXCEPT !.m_addr = username,
                                        !.m_mmauth = mmauth.v,
                                        !.m_mindiff = mindiff.v,
                                        !.m_authorized = TRUE,
                                        !.m_send_work = TRUE],
                      "true", <<>>, Registered(mmauth.v), <<>>)
        MinDiff(username, plus, mmauth) ==
            IF plus = NPOS THEN Grant(username, mmauth, Value(0))
            ELSE Grant(TrimRight(Substr(username, 0, plus)), mmauth,
                       LexicalCastDouble(TrimLeft(SubstrFrom(username, plus + 1))))
        Options(username, split) ==
            IF split.hang THEN Hangs(g, client)
            ELSE MinDiff(username, Find(username, "+", 0), AddOptions(EmptyMap, split.opts))
        Trimmed(username, password) == Options(username, SplitOptions(password, 0, <<>>))
    IN IF ~BoundParams(params, 1, 2) THEN Raised(g, client, "invalid_parameter")
       ELSE IF At(params, 0).t # "str" \/ At(params, 1).t # "str"
       THEN Raised(g, client, "internal")
       ELSE Trimmed(Trim(At(params, 0).payload), Trim(At(params, 1).payload))

\* stratum_mining_configure
RECURSIVE ConfigureExtensions(_, _, _, _)
ConfigureExtensions(client, extensions, config, res) ==
    LET Stop(code) == [threw |-> code, client |-> client, res |-> res]
        Roll(mask) ==
            ConfigureExtensions([client EXCEPT !.m_version_rolling_mask = mask],
                                Tail(extensions), config,
                                Append(res, [version_rolling |-> TRUE, mask |-> HexInt4(mask)]))
        Masked(mask) ==
            IF mask.threw # "none" THEN Stop(mask.threw)
            ELSE IF FindValue(config, "version-rolling.min-bit-count").t # "num"
            THEN Stop("internal")
            ELSE Roll(BitAnd(mask.v, VersionRollingMask))
        Named(name) ==
            IF name.t # "str" THEN Stop("internal")
            ELSE IF name.payload # <<"version-rolling">>
            THEN ConfigureExtensions(client, Tail(extensions), config, res)
            ELSE Masked(ParseHexInt4(FindValue(config, "version-rolling.mask")))
    IN IF extensions = <<>> THEN [threw |-> "none", client |-> client, res |-> res]
       ELSE Named(Head(extensions))

stratum_mining_configure(g, client, params) ==
    LET Reply(r) ==
            IF r.threw # "none" THEN Raised(g, r.client, r.threw)
            ELSE Done(g, r.client, "configure", r.res, <<>>, <<>>)
    IN IF ~BoundParams(params, 2, 2) THEN Raised(g, client, "invalid_parameter")
       ELSE IF At(params, 0).t # "arr" \/ At(params, 1).t # "obj"
       THEN Raised(g, client, "internal")
       ELSE Reply(ConfigureExtensions(client, At(params, 0).payload, At(params, 1), <<>>))

\* stratum_mining_extranonce_subscribe
stratum_mining_extranonce_subscribe(g, client, params) ==
    IF ~BoundParams(params, 0, 0) THEN Raised(g, client, "invalid_parameter")
    ELSE Done(g, [client EXCEPT !.m_supports_extranonce = TRUE], "true", <<>>, <<>>, <<>>)

(***************************************************************************)
(* Shares.                                                                 *)
(***************************************************************************)
\* What CheckProofOfWork and ProcessNewBlock answer for a submitted header.
Lucks == {"share", "rejected", "block"}

\* The version of the share taken as the miner sent it.
RollVersionUnmasked(nVersion, bits, mask) == bits

\* nVersion with the bits the client may roll taken from the share.
RollVersion(nVersion, bits, mask) ==
    BitOrDisjoint(BitAndNot(nVersion, mask), BitAnd(bits, mask))

\* AuxShares without the look into m_mmauth: every chain of the bundle gets
\* the share.
AuxSharesAll(client, mmroot) ==
    LET bundle == client.m_mmwork[mmroot].second
        Calls(chains) ==
            [i \in 1 .. Len(chains) |->
                [call |-> "SubmitAuxChainShare", chain |-> chains[i],
                 username |-> IF Has(client.m_mmauth, chains[i])
                              THEN client.m_mmauth[chains[i]][1] ELSE <<>>,
                 commit |-> bundle[chains[i]].commit]]
    IN Calls(KeysInOrder(DOMAIN bundle))

\* The shares SubmitBlock passes on to the chains of the bundle the miner
\* is authorized for.
AuxShares(client, mmroot) ==
    LET bundle == client.m_mmwork[mmroot].second
        Calls(chains) ==
            [i \in 1 .. Len(chains) |->
                [call |-> "SubmitAuxChainShare", chain |-> chains[i],
                 username |-> client.m_mmauth[chains[i]][1],
                 commit |-> bundle[chains[i]].commit]]
    IN Calls(KeysInOrder({ch \in DOMAIN bundle : Has(client.m_mmauth, ch)}))

\* CheckProofOfWork that lets every header through.
CheckProofOfWorkAlways(luck) == TRUE

\* CheckProofOfWork(hash, blkhdr.nBits, ...): what the hash of the header
\* comes to is the miner's luck.
CheckProofOfWork(luck) == luck # "share"

\* SubmitBlock: the block the share stands for, rebuilt from the template.
SubmitBlock(g, client, job, mmroot, current_work, extranonce2, nTime, nNonce, nVersion, luck) ==
    LET block == current_work.m_block_template
        Judge(seg, blkhdr) ==
            [client |-> IF luck = "block" THEN [client EXCEPT !.m_send_work = TRUE] ELSE client,
             calls |-> (IF CheckProofOfWork(luck)
                        THEN <<[call |-> "ProcessNewBlock", header |-> blkhdr,
                                cb |-> SerializeNoWitness(seg.cb)]>>
                        ELSE <<>>)
                       \o (IF /\ current_work.m_is_witness_enabled
                              /\ block.has_block_final_tx
                              /\ Has(client.m_mmwork, mmroot)
                           THEN AuxShares(client, mmroot) ELSE <<>>),
             shares |-> <<[path |-> "primary", job |-> job, mmroot |-> mmroot,
                           extranonce1 |-> ExtraNonce1(client, job),
                           extranonce2 |-> extranonce2,
                           cb |-> SerializeNoWitness(seg.cb), header |-> blkhdr,
                           pow |-> luck # "share", res |-> luck = "block"]>>,
             res |-> luck = "block"]
        Header(seg) ==
            Judge(seg, [nVersion |-> nVersion,
                        hashPrevBlock |-> block.hashPrevBlock,
                        hashMerkleRoot |->
                            ComputeMerkleRootFromBranch(TxHash(seg.cb), seg.cb_branch),
                        nTime |-> nTime, nBits |-> block.nBits, nNonce |-> nNonce])
        Segwit(cb, bf) ==
            Header(IF current_work.m_is_witness_enabled
                   THEN UpdateSegwitCommitment(current_work, cb, bf)
                   ELSE [cb |-> cb, bf |-> bf, cb_branch |-> current_work.m_cb_branch])
    IN Segwit(CustomizeCoinbase(block.cb, current_work.m_height,
                                ExtraNonce1(client, job) \o extranonce2, client.m_addr),
              IF block.has_block_final_tx
              THEN UpdateBlockFinalTransaction(block.bf, mmroot).bf ELSE block.bf)

\* SubmitSecondStage: the share is passed on to the chain it belongs to.
SubmitSecondStage(g, client, chainid, work, extranonce2, nTime, nNonce, nVersion, luck) ==
    LET extranonce1 == ExtraNonce1(client, chainid)
        coinbase == work.cb1 \o extranonce1 \o extranonce2 \o work.cb2
        blkhdr == [nVersion |-> nVersion,
                   hashPrevBlock |-> work.hashPrevBlock,
                   hashMerkleRoot |-> ComputeMerkleRootFromBranch(coinbase, work.cb_branch),
                   nTime |-> nTime, nBits |-> work.nBits, nNonce |-> nNonce]
        res == luck # "share"
    IN IF ~Has(client.m_mmauth, chainid)
       THEN [client |-> client, calls |-> <<>>, shares |-> <<>>, res |-> FALSE]
       ELSE [client |-> IF res THEN [client EXCEPT !.m_send_work = TRUE] ELSE client,
             calls |-> <<[call |-> "SubmitSecondStageShare", chain |-> chainid,
                          username |-> client.m_mmauth[chainid][1],
                          job |-> work.job_id, extranonce1 |-> extranonce1,
                          work |-> work, extranonce2 |-> extranonce2,
                          nVersion |-> nVersion, nTime |-> nTime, nNonce |-> nNonce]>>,
             shares |-> <<[path |-> "second", job |-> work.job_id, mmroot |-> None,
                           extranonce1 |-> extranonce1,
                           extranonce2 |-> extranonce2,
                           cb |-> coinbase, header |-> blkhdr]>>,
             res |-> res]

\* An unknown job answered without asking for new work.
UnknownJobQuiet(g, client) == Done(g, client, "false", <<>>, <<>>, <<>>)

\* The share names a job that is not held: new work is asked for and the
\* answer is false.
UnknownJob(g, client) ==
    Done(g, [client EXCEPT !.m_send_work = TRUE], "false", <<>>, <<>>, <<>>)

\* The answer to a share that follows what SubmitBlock or SubmitSecondStage
\* returned.
SubmitAnswerOfShare(res) == IF res THEN "true" ELSE "false"

\* The answer to a share of a job that is held: the value SubmitBlock or
\* SubmitSecondStage returned is dropped.
SubmitAnswer(res) == "true"

\* stratum_mining_submit
stratum_mining_submit(g, client, params, luck) ==
    LET id == At(params, 1).payload
        unknown == UnknownJob(g, client)
        Submitted(r) == Done(g, r.client, SubmitAnswer(r.res), <<>>, r.calls, r.shares)
        Rolled(nVersion, bits) ==
            IF Len(params) > 5
            THEN RollVersion(nVersion, bits.v, client.m_version_rolling_mask)
            ELSE nVersion
        Second(extranonce2, nTime, nNonce, item, bits) ==
            IF Len(params) > 5 /\ bits.threw # "none" THEN Raised(g, client, bits.threw)
            ELSE Submitted(SubmitSecondStage(g, client, item.first, item.second, extranonce2,
                                             nTime, nNonce, Rolled(item.second.nVersion, bits),
                                             luck))
        Primary(extranonce2, nTime, nNonce, job, mmroot, bits) ==
            IF mmroot.threw # "none" THEN Raised(g, client, mmroot.threw)
            ELSE IF job.threw # "none" THEN Raised(g, client, job.threw)
            ELSE IF ~Has(g.work_templates, job.v) THEN unknown
            ELSE IF Len(params) > 5 /\ bits.threw # "none" THEN Raised(g, client, bits.threw)
            ELSE Submitted(SubmitBlock(g, client, job.v, mmroot.v, g.work_templates[job.v],
                                       extranonce2, nTime, nNonce,
                                       Rolled(g.work_templates[job.v].m_block_template.nVersion,
                                              bits),
                                       luck))
        Job(extranonce2, nTime, nNonce, pos, bits) ==
            IF id # <<>> /\ id[1] = ":"
            THEN IF ~Has(g.second_stages, SubstrFrom(id, 1)) THEN unknown
                 ELSE Second(extranonce2, nTime, nNonce, g.second_stages[SubstrFrom(id, 1)],
                             bits)
            ELSE Primary(extranonce2, nTime, nNonce,
                         ParseUInt256(Str(IF pos # NPOS THEN Substr(id, 0, pos) ELSE id)),
                         IF pos # NPOS THEN ParseUInt256(Str(SubstrFrom(id, pos + 1)))
                         ELSE Value(None),
                         bits)
        Parsed(extranonce2, nTime, nNonce) ==
            IF extranonce2.threw # "none" THEN Raised(g, client, extranonce2.threw)
            ELSE IF Len(extranonce2.v) # En2Len THEN Raised(g, client, "invalid_parameter")
            ELSE IF nTime.threw # "none" THEN Raised(g, client, nTime.threw)
            ELSE IF nNonce.threw # "none" THEN Raised(g, client, nNonce.threw)
            ELSE Job(extranonce2.v, nTime.v, nNonce.v, Find(id, ":", 0),
                     ParseHexInt4(At(params, 5)))
    IN IF ~BoundParams(params, 5, 6) THEN Raised(g, client, "invalid_parameter")
       ELSE IF At(params, 1).t # "str" THEN Raised(g, client, "internal")
       ELSE Parsed(ParseHexV(At(params, 2)), ParseHexInt4(At(params, 3)),
                   ParseHexInt4(At(params, 4)))

(***************************************************************************)
(* stratum_read_cb: the lines of one read, then the work the session asked *)
(* for.                                                                    *)
(***************************************************************************)
\* The id of a reply to a line that could not be parsed.
NullId == 0

\* A line of input.  fmt: "garbage" is not JSON, "scalar" is JSON but no
\* object, "object" is a JSON object with the members given.
RequestLine(id, method, params) ==
    [fmt |-> "object", has_result |-> FALSE, id |-> id, method |-> method, params |-> params]
ResultLine(id) ==
    [fmt |-> "object", has_result |-> TRUE, id |-> id, method |-> NullUniValue,
     params |-> NullUniValue]
GarbageLine == [fmt |-> "garbage", has_result |-> FALSE, id |-> NullId,
                method |-> NullUniValue, params |-> NullUniValue]
ScalarLine == [GarbageLine EXCEPT !.fmt = "scalar"]

\* stratum_method_dispatch
stratum_method_dispatch ==
    {"mining.subscribe", "mining.authorize", "mining.configure", "mining.submit",
     "mining.extranonce.subscribe"}

Dispatch(g, client, method, params, luck) ==
    CASE method = "mining.subscribe" -> stratum_mining_subscribe(g, client, params)
      [] method = "mining.authorize" -> stratum_mining_authorize(g, client, params)
      [] method = "mining.configure" -> stratum_mining_configure(g, client, params)
      [] method = "mining.submit" -> stratum_mining_submit(g, client, params, luck)
      [] method = "mining.extranonce.subscribe" ->
             stratum_mining_extranonce_subscribe(g, client, params)

\* A loop that answers no line.
HandleLineSilent(g, client, line, luck) ==
    [client |-> client, frames |-> <<>>, calls |-> <<>>, shares |-> <<>>, hang |-> FALSE,
     threw |-> "none"]

\* One turn of the loop over the lines: the state it leaves and the reply it
\* appends (none for a line that carries a result).
HandleLine(g, client, line, luck) ==
    LET quiet == [client |-> client, frames |-> <<>>, calls |-> <<>>, shares |-> <<>>,
                  hang |-> FALSE, threw |-> "none"]
        fails(code, id) == [quiet EXCEPT !.frames = <<ErrorFrame(code, id)>>, !.threw = code]
        Answer(r) ==
            IF r.hang THEN [quiet EXCEPT !.hang = TRUE]
            ELSE IF r.threw # "none"
            THEN [quiet EXCEPT !.client = r.client, !.frames = <<ErrorFrame(r.threw, line.id)>>,
                               !.threw = r.threw]
            ELSE [client |-> r.client, frames |-> <<ReplyFrame(r.result, r.data, line.id)>>,
                  calls |-> r.calls, shares |-> r.shares, hang |-> FALSE, threw |-> "none"]
    IN IF line.fmt # "object" THEN fails("parse", NullId)
       ELSE IF line.has_result THEN quiet
       ELSE IF line.method.t # "str" THEN fails("request", line.id)
       ELSE IF line.params.t \notin {"arr", "null"} THEN fails("request", line.id)
       ELSE IF line.method.payload \notin stratum_method_dispatch
       THEN fails("method_not_found", line.id)
       ELSE Answer(Dispatch(g, client, line.method.payload,
                            IF line.params.t = "arr" THEN line.params.payload ELSE <<>>, luck))

RECURSIVE ReadLines(_, _, _, _, _)
ReadLines(g, client, lines, luck, acc) ==
    LET Next_(r, acc2) ==
            IF r.hang THEN [acc2 EXCEPT !.client = client, !.hang = TRUE]
            ELSE ReadLines(g, r.client, Tail(lines), luck, acc2)
        Step(r) == Next_(r, [acc EXCEPT !.frames = @ \o r.frames, !.calls = @ \o r.calls,
                                        !.shares = @ \o r.shares,
                                        !.replies = Append(@, [frames |-> r.frames,
                                                               calls |-> r.calls,
                                                               shares |-> r.shares,
                                                               threw |-> r.threw,
                                                               before |-> client,
                                                               after |-> r.client])])
    IN IF lines = <<>> THEN [acc EXCEPT !.client = client]
       ELSE Step(HandleLine(g, client, Head(lines), luck))

\* The work sent when GetWorkUnit is asked from a callback: its frames, or
\* the error it threw as a reply without id.
WorkOrError(g, client, E, ready) ==
    LET Caught(r) ==
            [g |-> r.g, client |-> r.client,
             frames |-> IF r.threw = "none" THEN r.frames
                        ELSE <<ErrorFrame(r.threw, NullId)>>]
    IN Caught(GetWorkUnit(g, client, E, ready))

\* The whole callback on the state it is given.
ReadCallback(g, client, lines, E, ready, luck) ==
    LET Sent(read, work) ==
            [g |-> work.g, client |-> [work.client EXCEPT !.m_send_work = FALSE],
             frames |-> read.frames \o work.frames, calls |-> read.calls,
             shares |-> read.shares, replies |-> read.replies, hang |-> FALSE,
             send_work |-> TRUE]
        Work(read) ==
            IF read.hang \/ ~read.client.m_send_work
            THEN [g |-> g, client |-> read.client, frames |-> read.frames,
                  calls |-> read.calls, shares |-> read.shares, replies |-> read.replies,
                  hang |-> read.hang, send_work |-> FALSE]
            ELSE Sent(read, WorkOrError(g, read.client, E, ready))
    IN Work(ReadLines(g, client, lines, luck,
                      [client |-> client, frames |-> <<>>, calls |-> <<>>,
                       shares |-> <<>>, replies |-> <<>>, hang |-> FALSE]))

(***************************************************************************)
(* BlockWatcher: one pass over the subscriptions.                          *)
(***************************************************************************)
\* The session is already working on the second-stage work on offer.
WatcherSkipsSecondStage(client, E) ==
    /\ E.ssw.some
    /\ client.m_last_second_stage.some
    /\ client.m_last_second_stage.first = E.ssw.first
    /\ client.m_last_second_stage.second = E.ssw.second.hashPrevBlock

\* AuxWorkMerkleRoot is called outside the try block of the pass.
WatcherThrows(client, E) ==
    ~E.ssw.some /\ AuxWorkMerkleRootThrows(GetMergeMineWork(client.m_mmauth, E))

\* The session is already working on the new block.
WatcherSkipsTip(client, E) ==
    /\ ~E.ssw.some
    /\ client.m_last_tip = E.chainTip
    /\ Has(client.m_mmwork, AuxWorkMerkleRoot(GetMergeMineWork(client.m_mmauth, E)))

RECURSIVE WatchClients(_, _, _, _, _, _)
WatchClients(g, subs, order, E, ready, acc) ==
    LET c == Head(order)
        Sent(work) ==
            WatchClients(work.g, [subs EXCEPT ![c] = work.client], Tail(order), E, ready,
                         [frames |-> [acc.frames EXCEPT ![c] = work.frames],
                          called |-> acc.called \cup {c}])
        Visit(client) ==
            IF ~client.m_authorized \/ WatcherSkipsSecondStage(client, E)
            THEN WatchClients(g, subs, Tail(order), E, ready, acc)
            ELSE IF WatcherThrows(client, E)
            THEN [g |-> g, subs |-> subs, frames |-> acc.frames, called |-> acc.called,
                  threw |-> TRUE]
            ELSE IF WatcherSkipsTip(client, E)
            THEN WatchClients(g, subs, Tail(order), E, ready, acc)
            ELSE Sent(WorkOrError(g, client, E, ready))
    IN IF order = <<>> THEN [g |-> g, subs |-> subs, frames |-> acc.frames,
                             called |-> acc.called, threw |-> FALSE]
       ELSE Visit(subs[c])

(***************************************************************************)
(* What the miner of a connection has been told.                           *)
(***************************************************************************)
NoRequest == [path |-> "none", chain |-> 0, prev |-> 0]
NoNotify == [path |-> "none", clean |-> FALSE, tip |-> 0, first |-> FALSE, prev_tip |-> 0,
             had_primary |-> FALSE, prev_primary_tip |-> 0, req |-> NoRequest,
             prev_req |-> NoRequest]
NoSent == [en1 |-> <<>>, jobs |-> EmptyMap, any |-> FALSE, tip |-> 0, primary_tip |-> 0,
           req |-> NoRequest, last |-> NoNotify, second |-> EmptyMap]

\* The job id a primary-path notify carries, as the pair the miner returns.
JobKey(f) == <<f.job_id, f.has_merge_mining, f.mmroot>>

\* What a GetWorkUnit call that gets past its checks is asked for: the
\* second-stage work on offer, or primary work.
CurrentRequest(E) ==
    IF E.ssw.some
    THEN [path |-> "second", chain |-> E.ssw.first, prev |-> E.ssw.second.hashPrevBlock]
    ELSE [NoRequest EXCEPT !.path = "primary"]

\* The miner's record after one more frame of a callback that ran in
\* environment E.
ObserveFrame(s, f, E) ==
    IF f.kind = "mining.set_extranonce" THEN [s EXCEPT !.en1 = f.extranonce1]
    ELSE IF f.kind = "reply" /\ f.result = "subscribe"
    THEN [s EXCEPT !.en1 = ParseHex(f.data.extranonce1)]
    ELSE IF f.kind = "mining.notify"
    THEN [s EXCEPT
            !.jobs = IF f.path = "primary"
                     THEN Put(@, JobKey(f),
                              [cb1 |-> f.cb1, cb2 |-> f.cb2, branch |-> f.branch,
                               hashPrevBlock |-> f.hashPrevBlock, nVersion |-> f.nVersion,
                               nBits |-> f.nBits, nTime |-> f.nTime, en1 |-> s.en1])
                     ELSE @,
            !.second = IF f.path = "second" THEN Put(@, f.job_id, s.en1) ELSE @,
            !.any = TRUE,
            !.tip = E.chainTip,
            !.primary_tip = IF f.path = "primary" THEN E.chainTip ELSE @,
            !.last = [path |-> f.path, clean |-> f.clean_jobs, tip |-> E.chainTip,
                      first |-> ~s.any, prev_tip |-> s.tip,
                      had_primary |-> s.primary_tip # 0,
                      prev_primary_tip |-> s.primary_tip,
                      req |-> CurrentRequest(E), prev_req |-> s.req]]
    ELSE s

RECURSIVE ObserveFrames(_, _, _)
ObserveFrames(s, frames, E) ==
    IF frames = <<>> THEN s
    ELSE ObserveFrames(ObserveFrame(s, Head(frames), E), Tail(frames), E)

\* The work request the session made, if GetWorkUnit got past its checks.
ObserveRequest(s, called, authorized, E, ready) ==
    IF called /\ authorized /\ ready = "ok" THEN [s EXCEPT !.req = CurrentRequest(E)] ELSE s

\* The header and coinbase the miner hashed for a share of a job it was sent.
MinerView(s, share) ==
    LET key == CHOOSE k \in DOMAIN s.jobs : k[1] = share.job /\ k[3] = share.mmroot
        n == s.jobs[key]
        coinbase == n.cb1 \o n.en1 \o share.extranonce2 \o n.cb2
    IN IF /\ share.path = "primary"
          /\ \E k \in DOMAIN s.jobs : k[1] = share.job /\ k[3] = share.mmroot
          /\ s.jobs[key].en1 # <<>>
       THEN [known |-> TRUE, cb |-> coinbase,
             hashMerkleRoot |-> ComputeMerkleRootFromBranch(coinbase, n.branch),
             hashPrevBlock |-> n.hashPrevBlock, nBits |-> n.nBits]
       ELSE [known |-> FALSE, cb |-> <<>>, hashMerkleRoot |-> <<>>, hashPrevBlock |-> 0,
             nBits |-> 0]

(***************************************************************************)
(* What the model records of the last step, for the properties.            *)
(***************************************************************************)
IsSubmit(line) == line.method.t = "str" /\ line.method.payload = "mining.submit"

\* mining.submit, well formed, for a job the server does not hold.
UnknownJobSubmit(line, g) ==
    LET params == line.params.payload
        id == At(params, 1).payload
        Absent(job, mmroot) ==
            /\ job.threw = "none" /\ mmroot.threw = "none"
            /\ ~Has(g.work_templates, job.v)
        Job(pos) ==
            IF id # <<>> /\ id[1] = ":"
            THEN ~Has(g.second_stages, SubstrFrom(id, 1))
            ELSE Absent(ParseUInt256(Str(IF pos # NPOS THEN Substr(id, 0, pos) ELSE id)),
                        IF pos # NPOS THEN ParseUInt256(Str(SubstrFrom(id, pos + 1)))
                        ELSE Value(None))
        WellFormed(extranonce2) ==
            /\ extranonce2.threw = "none"
            /\ Len(extranonce2.v) = En2Len
    IN /\ line.fmt = "object" /\ ~line.has_result
       /\ line.method.t = "str" /\ line.method.payload = "mining.submit"
       /\ line.params.t = "arr"
       /\ BoundParams(params, 5, 6)
       /\ At(params, 1).t = "str"
       /\ WellFormed(ParseHexV(At(params, 2)))
       /\ ParseHexInt4(At(params, 3)).threw = "none"
       /\ ParseHexInt4(At(params, 4)).threw = "none"
       /\ Job(Find(id, ":", 0))

\* mining.authorize whose user name is a valid payout address.
ValidAuthorize(line) ==
    LET params == line.params.payload
        name == Trim(At(params, 0).payload)
        plus == Find(name, "+", 0)
    IN /\ line.fmt = "object" /\ ~line.has_result
       /\ line.method.t = "str" /\ line.method.payload = "mining.authorize"
       /\ line.params.t = "arr"
       /\ BoundParams(params, 1, 2)
       /\ At(params, 0).t = "str"
       /\ IsValidAddress(IF plus = NPOS THEN name ELSE TrimRight(Substr(name, 0, plus)))

Digest(lines, g) ==
    [i \in 1 .. Len(lines) |->
        [id |-> IF lines[i].fmt = "object" THEN lines[i].id ELSE NullId,
         result |-> lines[i].fmt = "object" /\ lines[i].has_result,
         submit |-> lines[i].fmt = "object" /\ ~lines[i].has_result /\ IsSubmit(lines[i]),
         unknown_submit |-> UnknownJobSubmit(lines[i], g),
         valid_authorize |-> ValidAuthorize(lines[i]),
         nparams |-> IF lines[i].params.t = "arr" THEN Len(lines[i].params.payload) ELSE 0,
         fmt |-> lines[i].fmt,
         method |-> IF lines[i].fmt = "object" /\ ~lines[i].has_result
                       /\ lines[i].method.t = "str"
                       /\ lines[i].params.t \in {"arr", "null"}
                    THEN lines[i].method.payload ELSE "",
         params |-> IF lines[i].params.t = "arr" THEN lines[i].params.payload ELSE <<>>]]

NoEvent ==
    [type |-> "init", c |-> 0, lines |-> <<>>, send_work |-> FALSE, ready |-> "ok",
     calls |-> <<>>, shares |-> <<>>, replies |-> <<>>, views |-> <<>>, rebuilt |-> FALSE,
     called |-> {}]
Event(type, c) == [NoEvent EXCEPT !.type = type, !.c = c]

NoFrames == [c \in Clients |-> <<>>]

\* A work request that gets to the rebuild.
Rebuilds(g, client, E, ready) ==
    /\ ready = "ok" /\ client.m_authorized /\ ~E.ssw.some
    /\ NeedsRebuild(g, E)

Running == ~hung /\ ~crashed

\* The threads that call into the server: libevent's loop with the
\* callbacks, the block watcher, and the node's main thread with
\* InitStratumServer, InterruptStratumServer and StopStratumServer.
Threads == {"event", "watcher", "main"}

(***************************************************************************)
(* The callbacks, each under cs_stratum.                                   *)
(***************************************************************************)
Listener == 1

\* The accept callback without its look at the address of the peer.
AcceptUnchecked(c, allowed) ==
    /\ Running
    /\ c \notin DOMAIN subscriptions
    /\ listeners[Listener] = "enabled"
    /\ subscriptions' = Put(subscriptions, c, StratumClient(c))
    /\ bufferevents' = [bufferevents EXCEPT ![c] = 0]
    /\ listeners' = listeners
    /\ out' = NoFrames
    /\ ev' = Event("accept", c)
    /\ sent' = [sent EXCEPT ![c] = NoSent]
    /\ UNCHANGED <<envVars, work_templates, second_stages, tip, job_id,
                   transactions_updated_last, last_update_time, bound_listeners,
                   g_shutdown, hung, crashed, threadVars>>

stratum_accept_conn_cb(c, allowed) ==
    /\ Running
    /\ c \notin DOMAIN subscriptions
    /\ listeners[Listener] = "enabled"
    /\ IF allowed
       THEN /\ subscriptions' = Put(subscriptions, c, StratumClient(c))
            /\ bufferevents' = [bufferevents EXCEPT ![c] = 0]
            /\ listeners' = listeners
       ELSE /\ listeners' = [listeners EXCEPT ![Listener] = "freed"]
            /\ UNCHANGED <<subscriptions, bufferevents>>
    /\ out' = NoFrames
    /\ ev' = Event(IF allowed THEN "accept" ELSE "reject", c)
    /\ sent' = [sent EXCEPT ![c] = NoSent]
    /\ UNCHANGED <<envVars, work_templates, second_stages, tip, job_id,
                   transactions_updated_last, last_update_time, bound_listeners,
                   g_shutdown, hung, crashed, threadVars>>

SetGlobals(g) ==
    /\ work_templates' = g.work_templates
    /\ second_stages' = g.second_stages
    /\ tip' = g.tip
    /\ job_id' = g.job_id
    /\ transactions_updated_last' = g.transactions_updated_last
    /\ last_update_time' = g.last_update_time

stratum_read_cb(c, lines, ready, luck) ==
    LET Apply(r) ==
            /\ subscriptions' = [subscriptions EXCEPT ![c] = r.client]
            /\ SetGlobals(r.g)
            /\ hung' = r.hang
            /\ out' = [NoFrames EXCEPT ![c] = r.frames]
            /\ sent' = [sent EXCEPT ![c] =
                           ObserveRequest(ObserveFrames(@, r.frames, Env), r.send_work,
                                          r.client.m_authorized, Env, ready)]
            /\ ev' = [type |-> "read", c |-> c, lines |-> Digest(lines, Globals),
                      send_work |-> r.send_work,
                      ready |-> IF r.send_work THEN ready ELSE "ok",
                      calls |-> r.calls,
                      shares |-> r.shares,
                      replies |-> r.replies,
                      views |-> [i \in 1 .. Len(r.shares) |-> MinerView(sent[c], r.shares[i])],
                      rebuilt |-> r.send_work /\ Rebuilds(Globals, r.client, Env, ready),
                      called |-> IF r.send_work THEN {c} ELSE {}]
    IN /\ Running
       /\ c \in DOMAIN subscriptions
       /\ Apply(ReadCallback(Globals, subscriptions[c], lines, Env, ready, luck))
       /\ UNCHANGED <<envVars, bound_listeners, listeners, bufferevents, g_shutdown,
                      crashed, threadVars>>

\* what: "eof" and "error" stand for BEV_EVENT_EOF and BEV_EVENT_ERROR,
\* "timeout" for an event that is neither.
Whats == {"eof", "error", "timeout"}

stratum_event_cb(c, what) ==
    /\ Running
    /\ c \in DOMAIN subscriptions
    /\ IF what \in {"eof", "error"}
       THEN /\ subscriptions' = Erase(subscriptions, {c})
            /\ bufferevents' = [bufferevents EXCEPT ![c] = @ + 1]
            /\ ev' = Event("close", c)
            /\ sent' = [sent EXCEPT ![c] = NoSent]
       ELSE /\ ev' = Event("event", c)
            /\ UNCHANGED <<subscriptions, bufferevents, sent>>
    /\ out' = NoFrames
    /\ UNCHANGED <<envVars, work_templates, second_stages, tip, job_id,
                   transactions_updated_last, last_update_time, bound_listeners,
                   listeners, g_shutdown, hung, crashed, threadVars>>

\* One turn of the loop of BlockWatcher that gets past the timed wait: woken
\* by cvBlockChange, or timed out with the mempool changed since the last
\* time-out (a time-out with the mempool unchanged goes back to the wait
\* and changes nothing).  It takes the lock, leaves the loop when g_shutdown
\* is set and else sends work to the sessions.  Where the thread stands
\* afterwards (at) is left to the caller.
BlockWatcherTurn(woken, ready) ==
    LET Apply(r) ==
            /\ subscriptions' = r.subs
            /\ SetGlobals(r.g)
            /\ crashed' = r.threw
            /\ out' = r.frames
            /\ sent' = [c \in Clients |->
                           IF c \in r.called
                           THEN ObserveRequest(ObserveFrames(sent[c], r.frames[c], Env),
                                               TRUE, TRUE, Env, ready)
                           ELSE sent[c]]
            /\ ev' = [Event("watch", 0) EXCEPT
                         !.ready = ready,
                         !.called = r.called,
                         !.rebuilt = \E c \in r.called :
                                         Rebuilds(Globals, subscriptions[c], Env, ready)]
    IN /\ Running
       /\ block_watcher_thread = "running"
       /\ woken \/ txns_updated_last # txUpdated
       /\ txns_updated_last' = IF woken THEN txns_updated_last ELSE txUpdated
       /\ IF g_shutdown
          THEN /\ block_watcher_thread' = "exited"
               /\ out' = NoFrames
               /\ ev' = Event("exit", 0)
               /\ UNCHANGED <<subscriptions, work_templates, second_stages, tip, job_id,
                              transactions_updated_last, last_update_time, crashed, sent>>
          ELSE /\ Apply(WatchClients(Globals, subscriptions,
                                     KeysInOrder(DOMAIN subscriptions), Env, ready,
                                     [frames |-> NoFrames, called |-> {}]))
               /\ UNCHANGED block_watcher_thread
       /\ UNCHANGED <<envVars, bound_listeners, listeners, bufferevents, g_shutdown, hung,
                      cs_stratum>>

BlockWatcherLoop(woken, ready) == BlockWatcherTurn(woken, ready) /\ UNCHANGED at

\* A turn of the loop that was woken by cvBlockChange.
BlockWatcher(ready) == BlockWatcherLoop(TRUE, ready)

\* A use of a listener that was freed is undefined: the process goes on or
\* it is terminated.
UseAfterFree == \E l \in bound_listeners : listeners[l] = "freed"

InterruptStratumServer(survives) ==
    /\ Running
    /\ ~g_shutdown
    /\ survives \/ UseAfterFree
    /\ crashed' = ~survives
    /\ listeners' = [l \in DOMAIN listeners |->
                        IF l \in bound_listeners /\ listeners[l] = "enabled"
                        THEN "disabled" ELSE listeners[l]]
    /\ g_shutdown' = TRUE
    /\ out' = NoFrames
    /\ ev' = Event("interrupt", 0)
    /\ UNCHANGED <<envVars, subscriptions, work_templates, second_stages, tip, job_id,
                   transactions_updated_last, last_update_time, bound_listeners,
                   bufferevents, hung, sent, threadVars>>

StopStratumServer(survives) ==
    /\ Running
    /\ g_shutdown
    /\ bound_listeners # {}
    /\ survives \/ UseAfterFree
    /\ crashed' = ~survives
    /\ subscriptions' = EmptyMap
    /\ bufferevents' = [c \in DOMAIN bufferevents |->
                           IF c \in DOMAIN subscriptions
                           THEN bufferevents[c] + 1 ELSE bufferevents[c]]
    /\ listeners' = [l \in DOMAIN listeners |->
                        IF l \notin bound_listeners THEN listeners[l]
                        ELSE IF listeners[l] = "freed" THEN "freed twice" ELSE "freed"]
    /\ bound_listeners' = {}
    /\ work_templates' = EmptyMap
    /\ out' = NoFrames
    /\ ev' = Event("stop", 0)
    /\ sent' = [c \in Clients |-> NoSent]
    /\ UNCHANGED <<envVars, second_stages, tip, job_id, transactions_updated_last,
                   last_update_time, g_shutdown, hung, threadVars>>

(***************************************************************************)
(* The node around the server.                                             *)
(***************************************************************************)
EnvStep(what) ==
    /\ Running
    /\ out' = NoFrames
    /\ ev' = Event(what, 0)
    /\ UNCHANGED <<srvVars, sent>>

\* The clock advances.
Tick(dt) ==
    /\ ticks < MaxTicks
    /\ now' = now + dt
    /\ ticks' = ticks + 1
    /\ EnvStep("tick")
    /\ UNCHANGED <<offset, chainTip, txUpdated, aux, ssw, witness, hasbf, baseHeight>>

\* A block is connected.
NewTip(limit) ==
    /\ chainTip < limit
    /\ chainTip' = chainTip + 1
    /\ EnvStep("tip")
    /\ UNCHANGED <<now, offset, txUpdated, aux, ssw, witness, hasbf, baseHeight, ticks>>

\* The mempool changes.
MempoolUpdate ==
    /\ txUpdated < MaxTxUpdates
    /\ txUpdated' = txUpdated + 1
    /\ EnvStep("mempool")
    /\ UNCHANGED <<now, offset, chainTip, aux, ssw, witness, hasbf, baseHeight, ticks>>

\* The endpoint of a chain asks for another commitment (0: it has no work).
AuxChange(ch, commit) ==
    /\ aux[ch] # commit
    /\ aux' = [aux EXCEPT ![ch] = commit]
    /\ EnvStep("aux")
    /\ UNCHANGED <<now, offset, chainTip, txUpdated, ssw, witness, hasbf, baseHeight, ticks>>

\* Second-stage work is on offer, or no longer.
SecondStageWork(job, prev) ==
    [nTime |-> 1000, nVersion |-> BlockVersion, job_id |-> job,
     nBits |-> TemplateBits, hashPrevBlock |-> prev, cb_branch |-> <<>>,
     diff |-> 20000, cb1 |-> <<1, 2>>, cb2 |-> <<3>>]
SecondStageOffers ==
    {NoPair, SomePair(1, SecondStageWork(<<"x">>, 7)), SomePair(1, SecondStageWork(<<"y">>, 8))}

SecondStageChange(offer) ==
    /\ ssw # offer
    /\ ssw' = offer
    /\ EnvStep("second")
    /\ UNCHANGED <<now, offset, chainTip, txUpdated, aux, witness, hasbf, baseHeight, ticks>>

(***************************************************************************)
(* What miners send.                                                       *)
(***************************************************************************)
Subscribe == RequestLine(NullId, Str("mining.subscribe"), Arr(<<>>))
Authorize(user, pass) ==
    RequestLine(NullId, Str("mining.authorize"), Arr(<<Str(user), Str(pass)>>))
AuthorizeUserOnly(user) == RequestLine(NullId, Str("mining.authorize"), Arr(<<Str(user)>>))
ExtranonceSubscribe == RequestLine(NullId, Str("mining.extranonce.subscribe"), Arr(<<>>))
Configure(mask) ==
    RequestLine(NullId, Str("mining.configure"),
                Arr(<<Arr(<<Str(<<"version-rolling">>)>>),
                      Obj(("version-rolling.mask" :> Str(mask))
                          @@ ("version-rolling.min-bit-count" :> Num(2)))>>))
Submit(id, nTime) ==
    RequestLine(NullId, Str("mining.submit"),
                Arr(<<Str(<<"w">>), Str(id), Str(HexStr(<<0, 0, 0, 1>>)),
                      Str(HexInt4(nTime)), Str(HexInt4(0))>>))
\* A share with the version bits the miner rolled.
SubmitRolled(id, nTime, bits) ==
    RequestLine(NullId, Str("mining.submit"),
                Arr(<<Str(<<"w">>), Str(id), Str(HexStr(<<0, 0, 0, 1>>)),
                      Str(HexInt4(nTime)), Str(HexInt4(0)), Str(HexStr(bits))>>))
UnknownMethod == RequestLine(NullId, Str("mining.ping"), Arr(<<>>))

\* The job id of a primary-path notify as it is written on the wire.
JobIdString(key) ==
    HexOfUInt256(key[1]) \o (IF key[2] THEN <<":">> \o HexOfUInt256(key[3]) ELSE <<>>)

\* Shares for the primary-path jobs the miner was sent.
SubmitLines(c) ==
    {Submit(JobIdString(k), sent[c].jobs[k].nTime) : k \in DOMAIN sent[c].jobs}

\* The lines of a read, numbered by the miner in the order it sent them.
Numbered(lines) ==
    [i \in 1 .. Len(lines) |->
        IF lines[i].fmt = "object" THEN [lines[i] EXCEPT !.id = i] ELSE lines[i]]

\* What arrives in one read: a line of singles, or up to MaxBatch lines, the
\* last of them from tails and those before it from heads.
RECURSIVE Batches(_, _, _)
Batches(heads, tails, n) ==
    IF n = 1 THEN {<<t>> : t \in tails}
    ELSE Batches(heads, tails, n - 1)
         \cup {<<h>> \o b : h \in heads,
                            b \in {x \in Batches(heads, tails, n - 1) : Len(x) = n - 1}}

\* "ok", or why the node cannot hand out work: it has no peers, or it is in
\* initial block download.
Readies == {"ok", "noconn", "ibd"}

\* A read callback on what the miner sent.  The answers of the node are
\* drawn only where the callback asks for them.
MayAskWork(batch) ==
    \E i \in 1 .. Len(batch) :
        /\ batch[i].method.t = "str"
        /\ batch[i].method.payload \in {"mining.authorize", "mining.submit"}
Read(c, batches, readies, lucks) ==
    \E batch \in batches :
        \E ready \in IF MayAskWork(batch) THEN readies ELSE {"ok"},
           luck \in IF \E i \in 1 .. Len(batch) : IsSubmit(batch[i]) THEN lucks ELSE {"share"} :
            /\ stratum_read_cb(c, Numbered(batch), ready, luck)
            /\ ready = "ok" \/ ev'.send_work
            /\ luck = "share" \/ ev'.shares # <<>>

(***************************************************************************)
(* The server after InitStratumServer, in a node that is running.          *)
(***************************************************************************)
StartTime == 1000
FirstTip == 1

InitWith(configs, offsets) ==
    /\ now = StartTime
    /\ offset \in offsets
    /\ chainTip = FirstTip
    /\ txUpdated = 0
    /\ aux = [ch \in Chains |-> 0]
    /\ ssw = NoPair
    /\ \E cfg \in configs :
          /\ witness = cfg.witness
          /\ hasbf = cfg.hasbf
          /\ baseHeight = cfg.baseHeight
    /\ ticks = 0
    /\ subscriptions = EmptyMap
    /\ work_templates = EmptyMap
    /\ second_stages = EmptyMap
    /\ tip = None
    /\ job_id = None
    /\ transactions_updated_last = 0
    /\ last_update_time = 0
    /\ bound_listeners = {Listener}
    /\ listeners = [l \in {Listener} |-> "enabled"]
    /\ bufferevents = [c \in Clients |-> 0 - 1]
    /\ g_shutdown = FALSE
    /\ block_watcher_thread = "running"
    /\ txns_updated_last = 0
    /\ cs_stratum = "free"
    /\ at = [t \in Threads |-> "idle"]
    /\ hung = FALSE
    /\ crashed = FALSE
    /\ out = NoFrames
    /\ ev = NoEvent
    /\ sent = [c \in Clients |-> NoSent]

Config(w, bf, h) == [witness |-> w, hasbf |-> bf, baseHeight |-> h]

(***************************************************************************)
(* The protocol: two connections, the second of a miner that only          *)
(* authorizes; the chain advances and second-stage work comes and goes.    *)
(***************************************************************************)
Speaker == 1
Listeners == Clients \ {Speaker}

\* A share for a job nobody holds, on either path.
UnknownSubmits == {Submit(HexOfUInt256(None), StartTime), Submit(<<":", "q">>, StartTime)}

Heads(c) ==
    IF c = Speaker THEN {ResultLine(NullId), Submit(HexOfUInt256(None), StartTime)} ELSE {}
Tails(c) ==
    IF c = Speaker
    THEN {Authorize(<<"A">>, <<>>), AuthorizeUserOnly(<<"A">>), Authorize(<<"A">>, <<",">>),
          Authorize(<<"Z">>, <<>>), ResultLine(NullId), GarbageLine, UnknownMethod}
         \cup UnknownSubmits
    ELSE {Authorize(<<"B">>, <<>>)}

Init == InitWith({Config(FALSE, FALSE, 0)}, {0})

Next ==
    \/ \E c \in Clients : stratum_accept_conn_cb(c, TRUE)
    \/ \E c \in Clients : Read(c, Batches(Heads(c), Tails(c), MaxBatch), Readies, {"share"})
    \/ \E ready \in Readies : BlockWatcher(ready)
    \/ NewTip(MaxTip)

Spec == Init /\ [][Next]_vars

(***************************************************************************)
(* Work emissions: one miner that authorizes with a merge-mining option    *)
(* and may ask for extranonce updates, on nodes of several heights, with   *)
(* and without witness and block-final transaction; the chain, the mempool *)
(* and the auxiliary and second-stage work change under it.                *)
(***************************************************************************)
MergeMiner == Authorize(<<"A">>, <<"a", "=", "u">>)

\* Heights on both sides of the one-byte script numbers and of OP_16.
WorkConfigs ==
    {Config(FALSE, FALSE, 0), Config(TRUE, TRUE, 14), Config(TRUE, TRUE, 125),
     Config(FALSE, TRUE, 253)}

InitWork == InitWith(WorkConfigs, {0})

NextWork ==
    \/ stratum_accept_conn_cb(Speaker, TRUE)
    \/ Read(Speaker, {<<MergeMiner>>, <<ExtranonceSubscribe>>}, Readies, {"share"})
    \/ BlockWatcher("ok")
    \/ NewTip(MaxTip)
    \/ \E commit \in 0 .. MaxCommit : AuxChange(DefaultAuxPowPath, commit)
    \/ \E offer \in {NoPair, SomePair(1, SecondStageWork(<<"x">>, 7))} :
           SecondStageChange(offer)

SpecWork == InitWork /\ [][NextWork]_vars

\* The notifies among the frames the last callback appended for c.
Notifies(c) == {i \in 1 .. Len(out[c]) : out[c][i].kind = "mining.notify"}

\* The coinbase of the job of a primary-path notify f sent to session c, as
\* the claim describes it: the template's coinbase paying the miner, with the
\* height push and the push of the 12-byte nonce (extranonce1, then a zero
\* extranonce2) as its script, and the witness commitment of the block that
\* carries the commitment of f in its block-final transaction.
NotifiedCoinbase(c, f) ==
    LET work == work_templates[f.job_id]
        block == work.m_block_template
        bf == IF f.has_merge_mining THEN f.mmroot ELSE block.bf
    IN [nVersion |-> block.cb.nVersion,
        scriptSig |-> PushInt(work.m_height)
                      \o <<NonceLen>> \o ExtraNonce1(subscriptions[c], f.job_id)
                      \o Zeros(En2Len),
        vout |-> <<[nValue |-> block.cb.vout[1].nValue,
                    scriptPubKey |-> GetScriptForDestination(subscriptions[c].m_addr)]>>
                 \o (IF work.m_is_witness_enabled
                     THEN <<CommitmentOutput(block.txs, bf)>> ELSE <<>>),
        nLockTime |-> block.cb.nLockTime]

\* C4: for every notify of the primary path, cb1, the session's extranonce1
\* for the job, four zero bytes and cb2, in this order, are the no-witness
\* serialization of the customized coinbase of the job.
NotifySplitsCoinbase ==
    \A c \in DOMAIN subscriptions : \A i \in Notifies(c) :
        out[c][i].path = "primary" =>
            /\ Len(ExtraNonce1(subscriptions[c], out[c][i].job_id)) = En1Len
            /\ out[c][i].cb1 \o ExtraNonce1(subscriptions[c], out[c][i].job_id)
                 \o Zeros(En2Len) \o out[c][i].cb2
               = SerializeNoWitness(NotifiedCoinbase(c, out[c][i]))

\* A notify for a block whose height takes a two-byte script number, with a
\* witness commitment and a merge-mining commitment.
NotifySplitsCoinbaseSeen ==
    \E c \in DOMAIN subscriptions : \E i \in Notifies(c) :
        /\ out[c][i].path = "primary"
        /\ out[c][i].has_merge_mining
        /\ work_templates[out[c][i].job_id].m_is_witness_enabled
        /\ work_templates[out[c][i].job_id].m_height >= 128
        /\ subscriptions[c].m_supports_extranonce

\* C9: every notify is immediately preceded by a set_difficulty; a
\* set_extranonce is immediately followed by the set_difficulty and notify
\* it belongs to, and a session that asked for extranonce updates gets one
\* ahead of every such pair.
EmissionInOrder ==
    \A c \in Clients : \A i \in 1 .. Len(out[c]) :
        /\ out[c][i].kind = "mining.notify" =>
              /\ i > 1
              /\ out[c][i - 1].kind = "mining.set_difficulty"
              /\ (c \in DOMAIN subscriptions /\ subscriptions[c].m_supports_extranonce) =>
                    /\ i > 2
                    /\ out[c][i - 2].kind = "mining.set_extranonce"
        /\ out[c][i].kind = "mining.set_difficulty" =>
              /\ i < Len(out[c])
              /\ out[c][i + 1].kind = "mining.notify"
        /\ out[c][i].kind = "mining.set_extranonce" =>
              /\ i + 1 < Len(out[c])
              /\ out[c][i + 1].kind = "mining.set_difficulty"
              /\ out[c][i + 2].kind = "mining.notify"

\* An emission of the second-stage path with all three frames, after the
\* reply to the request that asked for it.
EmissionInOrderSeen ==
    \E c \in Clients :
        /\ Len(out[c]) = 4
        /\ out[c][1].kind = "reply"
        /\ out[c][2].kind = "mining.set_extranonce"
        /\ out[c][4].kind = "mining.notify"
        /\ out[c][4].path = "second"


(***************************************************************************)
(* clean_jobs: one miner that authorizes again and again and reconnects,   *)
(* while the chain advances and second-stage work comes, changes and goes. *)
(***************************************************************************)
InitClean == InitWith({Config(FALSE, FALSE, 0)}, {0})

NextClean ==
    \/ stratum_accept_conn_cb(Speaker, TRUE)
    \/ stratum_event_cb(Speaker, "eof")
    \/ Read(Speaker, {<<Authorize(<<"A">>, <<>>)>>}, Readies, {"share"})
    \/ \E ready \in Readies : BlockWatcher(ready)
    \/ NewTip(MaxTip)
    \/ \E offer \in SecondStageOffers : SecondStageChange(offer)

SpecClean == InitClean /\ [][NextClean]_vars

\* C5 as stated: clean_jobs of a notify is true exactly when it is the
\* session's first notify or the chain tip differs from the tip at the
\* previous notify of the session.
CleanIffTipChanged ==
    \A c \in Clients :
        sent[c].any =>
            (sent[c].last.clean <=>
                (sent[c].last.first \/ sent[c].last.tip # sent[c].last.prev_tip))

\* C5: clean_jobs of a primary-path notify is true exactly when the session
\* had no primary-path notify before or the tip differs from the tip at its
\* previous primary-path notify; clean_jobs of a second-stage notify is false
\* exactly when the work request the session made before this one was handed
\* second-stage work of the same chain on the same previous block; the first
\* notify of a session has clean_jobs true.
CleanJobsRule ==
    \A c \in Clients :
        sent[c].any =>
            /\ sent[c].last.path = "primary" =>
                  (sent[c].last.clean <=>
                      (~sent[c].last.had_primary
                       \/ sent[c].last.tip # sent[c].last.prev_primary_tip))
            /\ sent[c].last.path = "second" =>
                  (sent[c].last.clean <=> sent[c].last.prev_req # sent[c].last.req)
            /\ sent[c].last.first => sent[c].last.clean

\* A second-stage notify without clean_jobs although the tip has changed
\* since the session's previous notify.
CleanJobsRuleSeen ==
    \E c \in Clients :
        /\ sent[c].any
        /\ sent[c].last.path = "second"
        /\ ~sent[c].last.clean
        /\ sent[c].last.tip # sent[c].last.prev_tip

(***************************************************************************)
(* Shares: one miner that subscribes, authorizes under one address or      *)
(* another, asks for extranonce updates and submits shares for the jobs it *)
(* was sent, while the chain advances and auxiliary work arrives.           *)
(***************************************************************************)
InitShare == InitWith({Config(TRUE, TRUE, 0)}, {0})

ShareLines(c) ==
    {Subscribe, MergeMiner, Authorize(<<"B">>, <<>>), ExtranonceSubscribe} \cup SubmitLines(c)

NextShare ==
    \/ stratum_accept_conn_cb(Speaker, TRUE)
    \/ Read(Speaker, {<<l>> : l \in ShareLines(Speaker)}, {"ok"}, Lucks)
    \/ NewTip(MaxTip)
    \/ AuxChange(DefaultAuxPowPath, MaxCommit)

SpecShare == InitShare /\ [][NextShare]_vars

\* C3 as stated: for a share of a job the session was notified of, the
\* coinbase SubmitBlock rebuilds and the merkle root, previous block and
\* bits of its header are those the miner gets from the notify, the
\* extranonce1 it was told and its extranonce2.
ShareMatchesNotify ==
    ev.type = "read" =>
        \A i \in 1 .. Len(ev.shares) :
            ev.views[i].known =>
                /\ ev.shares[i].cb = ev.views[i].cb
                /\ ev.shares[i].header.hashMerkleRoot = ev.views[i].hashMerkleRoot
                /\ ev.shares[i].header.hashPrevBlock = ev.views[i].hashPrevBlock
                /\ ev.shares[i].header.nBits = ev.views[i].nBits

(***************************************************************************)
(* Ageing: one merge-mining miner on a node with block-final transactions, *)
(* while the clock advances by a little or by more than the age limit and  *)
(* the chain, the mempool and the auxiliary work change.                   *)
(***************************************************************************)
InitAge == InitWith({Config(TRUE, TRUE, 0)}, {0})

NextAge ==
    \/ stratum_accept_conn_cb(Speaker, TRUE)
    \/ Read(Speaker, {<<MergeMiner>>, <<Submit(HexOfUInt256(None), StartTime)>>},
            {"ok"}, {"share"})
    \/ BlockWatcher("ok")
    \/ \E dt \in {RebuildDelay + 1, MaxAge + 1} : Tick(dt)
    \/ NewTip(MaxTip)
    \/ MempoolUpdate
    \/ \E commit \in 0 .. MaxCommit : AuxChange(DefaultAuxPowPath, commit)

SpecAge == InitAge /\ [][NextAge]_vars

\* C2 as stated: after a GetWorkUnit call for a session, the session holds
\* at most 30 merge-mining bundles and none that is older than 15 minutes.
MmworkBounded ==
    \A c \in ev.called \cap DOMAIN subscriptions :
        ev.ready = "ok" =>
            /\ Cardinality(DOMAIN subscriptions[c].m_mmwork) <= MaxTemplates
            /\ \A k \in DOMAIN subscriptions[c].m_mmwork :
                  subscriptions[c].m_mmwork[k].first >= (now - MaxAge) * 1000

(***************************************************************************)
(* The template cache: one miner, a network time that may be ahead of the  *)
(* clock, a clock that advances while the chain is short, and a chain that *)
(* grows by more blocks than the cache may hold templates, each block      *)
(* served before the next arrives.                                         *)
(***************************************************************************)
InitCache == InitWith({Config(FALSE, FALSE, 0)}, 0 .. MaxOffset)

NextCache ==
    \/ stratum_accept_conn_cb(Speaker, TRUE)
    \/ Read(Speaker, {<<Authorize(<<"A">>, <<>>)>>}, {"ok"}, {"share"})
    \/ BlockWatcher("ok")
    \/ chainTip <= MaxTip /\ Tick(MaxAge \div 2 + 1)
    \/ tip = chainTip /\ NewTip(MaxCacheTips)

SpecCache == InitCache /\ [][NextCache]_vars

\* C1 as stated: after a rebuild the cache holds at most 30 templates, and
\* each of them is the current job or has a time no more than 900 seconds
\* before the clock.
CacheBounded ==
    ev.rebuilt =>
        /\ Cardinality(DOMAIN work_templates) <= MaxTemplates
        /\ \A k \in DOMAIN work_templates :
              \/ k = job_id
              \/ work_templates[k].m_block_template.nTime >= now - MaxAge

(***************************************************************************)
(* Properties of the protocol.                                             *)
(***************************************************************************)
WorkKinds == {"mining.set_extranonce", "mining.set_difficulty", "mining.notify"}

\* The lines of the last read that are requests: everything but the JSON
\* objects with a result field.
RequestsUpTo(i) == {k \in 1 .. i : ~ev.lines[k].result}
\* The place in the output of the reply to line i of the last read.
ReplyAt(i) == Cardinality(RequestsUpTo(i))
Requests == ReplyAt(Len(ev.lines))

\* What the last read appended after its replies.
WorkTail == SubSeq(out[ev.c], Requests + 1, Len(out[ev.c]))

\* The error GetWorkUnit raises before it builds anything.
RefusalOf(ready, authorized) ==
    IF ready = "noconn" THEN "notconnected"
    ELSE IF ready = "ibd" THEN "ibd"
    ELSE IF ~authorized THEN "request"
    ELSE "none"

IsEmission(frames) ==
    \/ /\ Len(frames) = 2
       /\ frames[1].kind = "mining.set_difficulty"
       /\ frames[2].kind = "mining.notify"
    \/ /\ Len(frames) = 3
       /\ frames[1].kind = "mining.set_extranonce"
       /\ frames[2].kind = "mining.set_difficulty"
       /\ frames[3].kind = "mining.notify"

\* C6 as stated: a session that is not authorized is sent no work frame, its
\* work request is answered with the Invalid request error, and the watcher
\* does not call GetWorkUnit for it.
UnauthorizedGetsInvalidRequest ==
    /\ \A c \in DOMAIN subscriptions :
          ~subscriptions[c].m_authorized =>
              \A i \in 1 .. Len(out[c]) : out[c][i].kind \notin WorkKinds
    /\ (ev.type = "read" /\ ev.send_work /\ ~subscriptions[ev.c].m_authorized) =>
          WorkTail = <<ErrorFrame("request", NullId)>>
    /\ ev.type = "watch" => \A c \in ev.called : subscriptions[c].m_authorized

\* C6: a session that is not authorized is sent no work frame; its work
\* request is answered with one error frame and nothing else: not connected
\* or downloading blocks when the node is, which is checked first, and
\* Invalid request otherwise; the watcher does not call GetWorkUnit for it.
UnauthorizedGetsNoWork ==
    /\ \A c \in DOMAIN subscriptions :
          ~subscriptions[c].m_authorized =>
              \A i \in 1 .. Len(out[c]) : out[c][i].kind \notin WorkKinds
    /\ (ev.type = "read" /\ ev.send_work /\ ~subscriptions[ev.c].m_authorized) =>
          WorkTail = <<ErrorFrame(RefusalOf(ev.ready, FALSE), NullId)>>
    /\ ev.type = "watch" => \A c \in ev.called : subscriptions[c].m_authorized

\* A work request of a session that is not authorized, made while the node
\* is downloading blocks and another session is authorized.
UnauthorizedGetsNoWorkSeen ==
    /\ ev.type = "read" /\ ev.send_work /\ ev.ready = "ibd"
    /\ ~subscriptions[ev.c].m_authorized
    /\ \E c \in DOMAIN subscriptions : subscriptions[c].m_authorized

\* The last read held shares for unknown jobs only.
OnlyUnknownSubmits == \A k \in 1 .. Len(ev.lines) : ev.lines[k].submit => ev.lines[k].unknown_submit

AuthorizeGrantsWork ==
    ev.type = "read" =>
        \A i \in 1 .. Len(ev.lines) :
            ev.lines[i].valid_authorize =>
                /\ subscriptions[ev.c].m_authorized
                /\ ev.send_work
                /\ Len(out[ev.c]) >= ReplyAt(i) + 2
                /\ out[ev.c][ReplyAt(i)] = ReplyFrame("true", <<>>, ev.lines[i].id)
                /\ out[ev.c][Len(out[ev.c]) - 1].kind = "mining.set_difficulty"
                /\ out[ev.c][Len(out[ev.c])].kind = "mining.notify"
                /\ sent[ev.c].last.first => out[ev.c][Len(out[ev.c])].clean_jobs

\* The sequence of the ids of the request lines of the last read.
RECURSIVE RequestIds(_)
RequestIds(i) ==
    IF i = 0 THEN <<>>
    ELSE RequestIds(i - 1) \o (IF ev.lines[i].result THEN <<>> ELSE <<ev.lines[i].id>>)

\* C10 as stated: the output of a read starts with one reply for each line
\* that is not a JSON object with a result field, in the order of the lines,
\* and whatever follows is the work the read asked for.
OneReplyPerRequest ==
    ev.type = "read" =>
        /\ Len(out[ev.c]) >= Requests
        /\ \A k \in 1 .. Requests :
              /\ out[ev.c][k].kind = "reply"
              /\ out[ev.c][k].id = RequestIds(Len(ev.lines))[k]
        /\ ~ev.send_work => Len(out[ev.c]) = Requests

(***************************************************************************)
(* Requests: one miner that sends every method with every number of        *)
(* parameters, well formed and not, alone or behind another line of the    *)
(* same read, on a node that is connected and synced.                      *)
(***************************************************************************)

\* A request for method with n parameters, each the string "A".
Call(method, n) == RequestLine(NullId, Str(method), Arr([i \in 1 .. n |-> Str(<<"A">>)]))

Calls == {Call(method, n) : method \in stratum_method_dispatch, n \in 0 .. MaxParams}

\* The mask 0x00ffe001: bits inside and outside of what may be rolled.
WideMask == HexStr(<<0, 255, 224, 1>>)

ReqHeads == {Configure(WideMask)}
ReqTails ==
    Calls \cup {Configure(WideMask), Authorize(<<"A">>, <<>>), GarbageLine, ScalarLine,
                UnknownMethod, ResultLine(NullId)}

InitReq == InitWith({Config(FALSE, FALSE, 0)}, {0})

NextReq ==
    \/ stratum_accept_conn_cb(Speaker, TRUE)
    \/ stratum_event_cb(Speaker, "eof")
    \/ Read(Speaker, Batches(ReqHeads, ReqTails, MaxBatch), {"ok"}, {"share"})

SpecReq == InitReq /\ [][NextReq]_vars

\* The bounds on the number of parameters, by method.
ParamBounds ==
    ("mining.subscribe" :> <<0, 2>>) @@ ("mining.authorize" :> <<1, 2>>)
    @@ ("mining.configure" :> <<2, 2>>) @@ ("mining.submit" :> <<5, 6>>)
    @@ ("mining.extranonce.subscribe" :> <<0, 0>>)

\* Line i of the last read asks for one of the five methods with a number
\* of parameters outside of the method's bounds.
OutOfBounds(e, i) ==
    /\ e.lines[i].method \in DOMAIN ParamBounds
    /\ \/ e.lines[i].nparams < ParamBounds[e.lines[i].method][1]
       \/ e.lines[i].nparams > ParamBounds[e.lines[i].method][2]

\* C11: a request for one of the five methods with a number of parameters
\* outside of the method's bounds is answered with one invalid-parameter
\* error under its id, forwards nothing and leaves the session as it was;
\* a read of nothing but such requests leaves subscriptions, work_templates,
\* second_stages and the statics of GetWorkUnit as they were.
ArityIsChecked ==
    [][ev'.type = "read" =>
          /\ \A i \in 1 .. Len(ev'.replies) :
                 OutOfBounds(ev', i) =>
                     /\ ev'.replies[i].frames =
                            <<ErrorFrame("invalid_parameter", ev'.lines[i].id)>>
                     /\ ev'.replies[i].calls = <<>>
                     /\ ev'.replies[i].after = ev'.replies[i].before
          /\ (\A i \in 1 .. Len(ev'.lines) : OutOfBounds(ev', i)) =>
                 /\ Len(ev'.replies) = Len(ev'.lines)
                 /\ subscriptions' = subscriptions
                 /\ Globals' = Globals]_vars

\* A session that is authorized, rolls versions and has asked for extranonce
\* updates sends a mining.submit with seven parameters behind another line.
ArityIsCheckedSeen ==
    /\ ev.type = "read"
    /\ Len(ev.replies) = 2
    /\ OutOfBounds(ev, 2)
    /\ ev.lines[2].method = "mining.submit"
    /\ ev.lines[2].nparams = 7
    /\ ev.replies[2].before.m_authorized
    /\ ev.replies[2].before.m_supports_extranonce
    /\ ev.replies[2].before.m_version_rolling_mask # 0


(***************************************************************************)
(* Submissions: one merge-mining miner that submits shares for the jobs it *)
(* was sent and for a job nobody holds, each share well formed or with one *)
(* of its fields a byte short, with and without version bits.              *)
(***************************************************************************)
\* A hex string without its last byte.
Shorter(hex) == SubSeq(hex, 1, Len(hex) - 2)

SubmitParams(id, extranonce2, nTime, nNonce, more) ==
    RequestLine(NullId, Str("mining.submit"),
                Arr(<<Str(<<"w">>), Str(id), Str(extranonce2), Str(nTime), Str(nNonce)>>
                    \o more))

\* The shares for a job: as they should be, and with one field too short.
SubmitShapes(job, mmroot, nTime) ==
    LET id == job \o mmroot
        en2 == HexStr(<<0, 0, 0, 1>>)
        time == HexInt4(nTime)
        nonce == HexInt4(0)
        bits == HexInt4(VersionRollingMask)
    IN {SubmitParams(id, en2, time, nonce, <<>>),
        SubmitParams(id, en2, time, nonce, <<Str(bits)>>),
        SubmitParams(id, Shorter(en2), time, nonce, <<>>),
        SubmitParams(id, en2, Shorter(time), nonce, <<>>),
        SubmitParams(id, en2, time, Shorter(nonce), <<>>),
        SubmitParams(id, en2, time, nonce, <<Str(Shorter(bits))>>),
        SubmitParams(Shorter(job) \o mmroot, en2, time, nonce, <<>>)}
       \cup (IF mmroot = <<>> THEN {}
             ELSE {SubmitParams(job \o Shorter(mmroot), en2, time, nonce, <<>>)})

SubmitTrials(c) ==
    UNION {SubmitShapes(HexOfUInt256(k[1]),
                        IF k[2] THEN <<":">> \o HexOfUInt256(k[3]) ELSE <<>>,
                        sent[c].jobs[k].nTime) : k \in DOMAIN sent[c].jobs}
    \cup SubmitShapes(HexOfUInt256(None), <<>>, StartTime)
    \cup SubmitShapes(HexOfUInt256(None), <<":">> \o HexOfUInt256(None), StartTime)

InitSubmit == InitWith({Config(TRUE, TRUE, 0)}, {0})

NextSubmit ==
    \/ stratum_accept_conn_cb(Speaker, TRUE)
    \/ Read(Speaker, {<<l>> : l \in {MergeMiner, Configure(WideMask)} \cup SubmitTrials(Speaker)},
            {"ok"}, {"share", "block"})
    \/ NewTip(MaxTip)
    \/ AuxChange(DefaultAuxPowPath, MaxCommit)

SpecSubmit == InitSubmit /\ [][NextSubmit]_vars

\* A hex string that stands for another number of bytes than n.
WrongLength(hex, n) == IsHex(hex) /\ Len(hex) # 2 * n

\* The fields of line i of the last read, a mining.submit with five or six
\* parameters that are strings of hex digits.
SubmitFields(e, i) ==
    LET params == e.lines[i].params
        id == params[2].payload
        pos == Find(id, ":", 0)
    IN [extranonce2 |-> params[3].payload,
        nTime |-> params[4].payload,
        nNonce |-> params[5].payload,
        bits |-> IF Len(params) > 5 THEN params[6].payload ELSE HexInt4(0),
        second |-> id # <<>> /\ id[1] = ":",
        job_id |-> IF pos # NPOS THEN Substr(id, 0, pos) ELSE id,
        mmroot |-> IF pos # NPOS THEN SubstrFrom(id, pos + 1) ELSE HexOfUInt256(None)]

IsSubmitOfStrings(e, i) ==
    /\ e.lines[i].method = "mining.submit"
    /\ e.lines[i].nparams \in 5 .. 6
    /\ \A j \in 1 .. e.lines[i].nparams : e.lines[i].params[j].t = "str"

WordTooShort(f) ==
    \/ WrongLength(f.extranonce2, En2Len)
    \/ WrongLength(f.nTime, 4)
    \/ WrongLength(f.nNonce, 4)

HashTooShort(f) ==
    ~f.second /\ (WrongLength(f.job_id, HashLen) \/ WrongLength(f.mmroot, HashLen))

\* C12 as stated: a mining.submit with a field of the wrong length is
\* answered with an invalid-parameter error and forwards no share.
WrongLengthIsInvalidParams ==
    ev.type = "read" =>
        \A i \in 1 .. Len(ev.replies) :
            IsSubmitOfStrings(ev, i)
            /\ (\/ WordTooShort(SubmitFields(ev, i))
                \/ HashTooShort(SubmitFields(ev, i))
                \/ WrongLength(SubmitFields(ev, i).bits, 4)) =>
                /\ ev.replies[i].frames = <<ErrorFrame("invalid_parameter", ev.lines[i].id)>>
                /\ ev.replies[i].calls = <<>>

\* C12: a mining.submit with a field of the wrong length forwards no share.
\* It is answered with an invalid-parameter error when extranonce2, nTime or
\* nNonce has the wrong length; else with an internal error when the id does
\* not start with ':' and its job id or mmroot has; else, the version bits
\* having the wrong length, with result false and a request for new work
\* when the job is not held and with an invalid-parameter error when it is.
WrongLengthIsRefused ==
    ev.type = "read" =>
        \A i \in 1 .. Len(ev.replies) :
            IsSubmitOfStrings(ev, i) =>
                /\ WordTooShort(SubmitFields(ev, i)) =>
                       /\ ev.replies[i].frames =
                              <<ErrorFrame("invalid_parameter", ev.lines[i].id)>>
                       /\ ev.replies[i].calls = <<>>
                /\ ~WordTooShort(SubmitFields(ev, i)) /\ HashTooShort(SubmitFields(ev, i)) =>
                       /\ ev.replies[i].frames = <<ErrorFrame("internal", ev.lines[i].id)>>
                       /\ ev.replies[i].calls = <<>>
                /\ (/\ ~WordTooShort(SubmitFields(ev, i))
                    /\ ~HashTooShort(SubmitFields(ev, i))
                    /\ WrongLength(SubmitFields(ev, i).bits, 4)) =>
                       /\ ev.replies[i].calls = <<>>
                       /\ ev.replies[i].frames =
                              IF ev.lines[i].unknown_submit
                              THEN <<ReplyFrame("false", <<>>, ev.lines[i].id)>>
                              ELSE <<ErrorFrame("invalid_parameter", ev.lines[i].id)>>
                       /\ ev.lines[i].unknown_submit => ev.replies[i].after.m_send_work

\* A share for a job that is held, with version bits a byte short, from a
\* session that rolls versions.
WrongLengthIsRefusedSeen ==
    /\ ev.type = "read"
    /\ Len(ev.replies) = 1
    /\ IsSubmitOfStrings(ev, 1)
    /\ ~WordTooShort(SubmitFields(ev, 1))
    /\ ~HashTooShort(SubmitFields(ev, 1))
    /\ WrongLength(SubmitFields(ev, 1).bits, 4)
    /\ ~ev.lines[1].unknown_submit
    /\ ev.replies[1].before.m_version_rolling_mask # 0
    /\ ev.replies[1].frames = <<ErrorFrame("invalid_parameter", ev.lines[1].id)>>


(***************************************************************************)
(* Sessions: connections are accepted and refused, miners send lines that  *)
(* cannot be served and lines that can, connections end, the chain         *)
(* advances, and the node interrupts and stops the server.                 *)
(***************************************************************************)
LifeHeads == {GarbageLine, Authorize(<<"A">>, <<",">>)}
LifeTails ==
    {GarbageLine, ScalarLine, UnknownMethod, ResultLine(NullId),
     Call("mining.subscribe", 3), Call("mining.configure", 2),
     Authorize(<<"A">>, <<>>), Authorize(<<"Z">>, <<>>), AuthorizeUserOnly(<<"A">>)}

InitLife == InitWith({Config(FALSE, FALSE, 0)}, {0})

NextLife ==
    \/ \E c \in Clients, allowed \in BOOLEAN : stratum_accept_conn_cb(c, allowed)
    \/ \E c \in Clients, what \in Whats : stratum_event_cb(c, what)
    \/ Read(Speaker, Batches(LifeHeads, LifeTails, MaxBatch), {"ok"}, {"share"})
    \/ \E c \in Listeners : Read(c, {<<Authorize(<<"B">>, <<>>)>>}, {"ok"}, {"share"})
    \/ BlockWatcher("ok")
    \/ NewTip(MaxTip)
    \/ \E survives \in BOOLEAN : InterruptStratumServer(survives)
    \/ \E survives \in BOOLEAN : StopStratumServer(survives)

SpecLife == InitLife /\ [][NextLife]_vars

\* Line i of a read cannot be served: it is no JSON, or no object, or names
\* a method that is not dispatched, or has too few or too many parameters,
\* or its handler raised.
Unserved(e, i) ==
    \/ e.lines[i].fmt # "object"
    \/ e.lines[i].method # "" /\ e.lines[i].method \notin stratum_method_dispatch
    \/ OutOfBounds(e, i)
    \/ e.lines[i].method \in stratum_method_dispatch /\ e.replies[i].threw # "none"

HashedJobs == {None} \cup DOMAIN work_templates \cup Chains

\* C14: while a session has not asked for extranonce updates, the
\* extranonce1 of its mining.subscribe replies, the one every notify would
\* put in its coinbase and the one every submit rebuilds the coinbase with
\* are the same bytes, whatever the job.
ExtraNonce1IsStable ==
    /\ \A c \in DOMAIN subscriptions :
          ~subscriptions[c].m_supports_extranonce =>
              /\ \A j \in HashedJobs :
                    ExtraNonce1(subscriptions[c], j) = ExtraNonce1(subscriptions[c], None)
              /\ sent[c].en1 # <<>> => sent[c].en1 = ExtraNonce1(subscriptions[c], None)
    /\ (ev.type = "read" /\ Has(subscriptions, ev.c)
           /\ ~subscriptions[ev.c].m_supports_extranonce) =>
          /\ \A i \in 1 .. Len(ev.shares) :
                ev.shares[i].extranonce1 = ExtraNonce1(subscriptions[ev.c], None)
          /\ \A i \in 1 .. Len(out[ev.c]) :
                (out[ev.c][i].kind = "reply" /\ out[ev.c][i].result = "subscribe") =>
                    ParseHex(out[ev.c][i].data.extranonce1)
                        = ExtraNonce1(subscriptions[ev.c], None)

\* A session that never asked for extranonce updates was told its
\* extranonce1, holds a job and has a share of it judged.
ExtraNonce1IsStableSeen ==
    /\ ev.type = "read" /\ Has(subscriptions, ev.c)
    /\ ~subscriptions[ev.c].m_supports_extranonce
    /\ sent[ev.c].en1 # <<>>
    /\ Len(ev.shares) > 0
    /\ \E j \in HashedJobs : j # None /\ j \notin Chains

(***************************************************************************)
(* Version rolling: one miner that sends mining.configure with masks       *)
(* inside and outside of the bits that may be rolled and with lists of     *)
(* extensions that are known, unknown, repeated or not names at all.       *)
(***************************************************************************)
ConfigureList(extensions, mask) ==
    RequestLine(NullId, Str("mining.configure"),
                Arr(<<Arr(extensions),
                      Obj(("version-rolling.mask" :> Str(mask))
                          @@ ("version-rolling.min-bit-count" :> Num(2)))>>))

VersionRolling == Str(<<"version-rolling">>)

ExtensionLists ==
    {<<>>, <<VersionRolling>>, <<Str(<<"x">>)>>, <<VersionRolling, VersionRolling>>,
     <<VersionRolling, Num(7)>>}

\* 0x00ffe001, 0xffffffff, 0x00000000 and a mask of two bytes.
RollMasks ==
    {WideMask, HexStr(<<255, 255, 255, 255>>), HexStr(<<0, 0, 0, 0>>), HexStr(<<255, 224>>)}

RollLines ==
    {ConfigureList(x, mask) : x \in ExtensionLists, mask \in RollMasks} \cup {Subscribe}

InitRoll == InitWith({Config(FALSE, FALSE, 0)}, {0})

NextRoll ==
    \/ stratum_accept_conn_cb(Speaker, TRUE)
    \/ stratum_event_cb(Speaker, "eof")
    \/ Read(Speaker, Batches({ConfigureList(<<VersionRolling>>, WideMask)}, RollLines,
                             MaxBatch), {"ok"}, {"share"})

SpecRoll == InitRoll /\ [][NextRoll]_vars

\* Line i of the read is a mining.configure that names version-rolling.
AsksRolling(e, i) ==
    /\ e.lines[i].method = "mining.configure"
    /\ e.lines[i].nparams = 2
    /\ e.lines[i].params[1].t = "arr"
    /\ \E k \in DOMAIN e.lines[i].params[1].payload :
          e.lines[i].params[1].payload[k] = VersionRolling

\* Line i of the read is a mining.configure that got its result.
Configured(e, i) ==
    /\ e.lines[i].method = "mining.configure"
    /\ e.replies[i].threw = "none"
    /\ Len(e.replies[i].frames) = 1
    /\ e.replies[i].frames[1].error = "none"

\* The bytes of the mask line i asks for, and of it & 0x1fffe000.
RequestedMask(e, i) == ParseHex(e.lines[i].params[2].payload["version-rolling.mask"].payload)
Rollable(bytes) == <<bytes[1] % 32, bytes[2], bytes[3] - (bytes[3] % 32), 0>>

\* C15 as stated: the mask of a session has no bit outside of 0x1fffe000,
\* is 0 in a new session, changes only in the handling of a
\* mining.configure that succeeds, and after one that names version-rolling
\* is the requested mask & 0x1fffe000, which the reply echoes.
RollingMaskRule ==
    [][/\ \A c \in DOMAIN subscriptions' :
             /\ subscriptions'[c].m_version_rolling_mask >= 0
             /\ BitAnd(subscriptions'[c].m_version_rolling_mask, VersionRollingMask)
                    = subscriptions'[c].m_version_rolling_mask
             /\ c \notin DOMAIN subscriptions =>
                    subscriptions'[c].m_version_rolling_mask = 0
             /\ (/\ c \in DOMAIN subscriptions
                 /\ subscriptions'[c].m_version_rolling_mask
                        # subscriptions[c].m_version_rolling_mask)
                    => ev'.type = "read" /\ ev'.c = c
       /\ ev'.type = "read" =>
             \A i \in 1 .. Len(ev'.replies) :
                 /\ (ev'.replies[i].after.m_version_rolling_mask
                        # ev'.replies[i].before.m_version_rolling_mask)
                        => Configured(ev', i)
                 /\ (Configured(ev', i) /\ AsksRolling(ev', i)) =>
                        /\ ToBytes(ev'.replies[i].after.m_version_rolling_mask, 4)
                               = Rollable(RequestedMask(ev', i))
                        /\ \A k \in DOMAIN ev'.replies[i].frames[1].data :
                               ev'.replies[i].frames[1].data[k].mask
                                   = HexStr(Rollable(RequestedMask(ev', i)))]_vars

(***************************************************************************)
(* ClampDifficulty on its own: minimum difficulties from none to above the *)
(* floor, and difficulties of the work below, at and above the floor.      *)
(***************************************************************************)
MinDiffs == 0 .. MaxMinDiff
WorkDiffs == {0, 1, DiffFloor - 1, DiffFloor, DiffFloor + 1, 20000}

ClampStep ==
    /\ \E mindiff \in MinDiffs, diff \in WorkDiffs :
          ev' = [Event("clamp", 0) EXCEPT
                   !.calls = <<[call |-> "ClampDifficulty", mindiff |-> mindiff, diff |-> diff,
                                ret |-> ClampDifficulty([m_mindiff |-> mindiff], diff)]>>]
    /\ UNCHANGED <<envVars, srvVars, out, sent>>

InitClamp == InitWith({Config(FALSE, FALSE, 0)}, {0})
NextClamp == ClampStep
SpecClamp == InitClamp /\ [][NextClamp]_vars

\* C16 as stated: the difficulty returned is at least 0.001 and is the
\* session's minimum difficulty whenever that is above 0.
ClampIsMinDiff ==
    ev.type = "clamp" =>
        /\ ev.calls[1].ret >= DiffFloor
        /\ ev.calls[1].mindiff > 0 => ev.calls[1].ret = ev.calls[1].mindiff

\* C16, amended: the difficulty returned is at least 0.001; it is the
\* session's minimum difficulty if that is 0.001 or more, 0.001 if the
\* minimum difficulty is above 0 and below 0.001, and otherwise the
\* difficulty of the work or 0.001, whichever is more.
ClampRaisesToFloor ==
    ev.type = "clamp" =>
        /\ ev.calls[1].ret >= DiffFloor
        /\ ev.calls[1].mindiff >= DiffFloor => ev.calls[1].ret = ev.calls[1].mindiff
        /\ (ev.calls[1].mindiff > 0 /\ ev.calls[1].mindiff < DiffFloor) =>
               ev.calls[1].ret = DiffFloor
        /\ (ev.calls[1].mindiff <= 0 /\ ev.calls[1].diff >= DiffFloor) =>
               ev.calls[1].ret = ev.calls[1].diff
        /\ (ev.calls[1].mindiff <= 0 /\ ev.calls[1].diff < DiffFloor) =>
               ev.calls[1].ret = DiffFloor

\* A minimum difficulty above 0 and below the floor is clamped.
ClampRaisesToFloorSeen ==
    /\ ev.type = "clamp"
    /\ ev.calls[1].mindiff > 0
    /\ ev.calls[1].mindiff < DiffFloor
    /\ ev.calls[1].ret = DiffFloor

(***************************************************************************)
(* HexInt4 and ParseHexInt4 on their own: words with every byte at the     *)
(* ends and in the middle of its range, and values that are no four bytes  *)
(* of hex.                                                                 *)
(***************************************************************************)
TestBytes == {0, 1, 127, 128, 255}

\* Hex of one to three and of five bytes, no hex, half a byte, no string.
NotFourBytes ==
    {Str(HexStr(Zeros(n))) : n \in {1, 2, 3, 5}}
    \cup {Str(<<>>), Str(<<"z", "z", "0", "0", "0", "0", "0", "0">>),
          Str(<<"0", "0", "0", "0", "0", "0", "0">>), Num(7), NullUniValue}

RoundTripStep ==
    /\ \E a \in TestBytes, b \in TestBytes, c \in TestBytes, d \in TestBytes :
          ev' = [Event("hexint4", 0) EXCEPT
                   !.calls = <<[call |-> "HexInt4", bytes |-> <<a, b, c, d>>,
                                val |-> Word32(<<a, b, c, d>>),
                                hex |-> HexInt4(Word32(<<a, b, c, d>>)),
                                back |-> ParseHexInt4(Str(HexInt4(Word32(<<a, b, c, d>>))))]>>]
    /\ UNCHANGED <<envVars, srvVars, out, sent>>

ParseStep ==
    /\ \E val \in NotFourBytes :
          ev' = [Event("parsehexint4", 0) EXCEPT
                   !.calls = <<[call |-> "ParseHexInt4", val |-> val,
                                back |-> ParseHexInt4(val)]>>]
    /\ UNCHANGED <<envVars, srvVars, out, sent>>

InitHex == InitWith({Config(FALSE, FALSE, 0)}, {0})
NextHex == RoundTripStep \/ ParseStep
SpecHex == InitHex /\ [][NextHex]_vars

\* C17: HexInt4 writes the four bytes of a word most significant first,
\* ParseHexInt4 of what HexInt4 wrote is the word, and ParseHexInt4 raises
\* an invalid-parameter error for what is not the hex of four bytes.
HexInt4RoundTrip ==
    /\ ev.type = "hexint4" =>
          /\ ev.calls[1].hex = HexStr(ev.calls[1].bytes)
          /\ ev.calls[1].back = [threw |-> "none", v |-> ev.calls[1].val]
    /\ ev.type = "parsehexint4" => ev.calls[1].back.threw = "invalid_parameter"

\* The word 0x80ff0001 made the round trip.
HexInt4RoundTripSeen ==
    /\ ev.type = "hexint4"
    /\ ev.calls[1].bytes = <<128, 255, 0, 1>>
    /\ ev.calls[1].val < 0
    /\ ev.calls[1].hex = <<"8", "0", "f", "f", "0", "0", "0", "1">>
    /\ ev.calls[1].back.v = ev.calls[1].val

(***************************************************************************)
(* Shutdown, in the lives of the sessions above.                           *)
(***************************************************************************)
\* C18 as stated: when StopStratumServer has returned, subscriptions,
\* bound_listeners and work_templates are empty and every bufferevent and
\* every listener has been freed exactly once, whatever connections were
\* accepted, refused and closed before.
StopFreesOnce ==
    (ev.type = "stop" /\ ~crashed) =>
        /\ subscriptions = EmptyMap
        /\ bound_listeners = {}
        /\ work_templates = EmptyMap
        /\ \A c \in DOMAIN bufferevents : bufferevents[c] \in {0 - 1, 1}
        /\ \A l \in DOMAIN listeners : listeners[l] = "freed"

(***************************************************************************)
(* The watcher's loop at shutdown: one miner, the chain and the mempool    *)
(* change or do not, and the server is interrupted.  The timed wait of the *)
(* loop returns at the latest when its 15 s are over, so the turn taken on *)
(* a time-out is fair; a notification of cvBlockChange comes only with a   *)
(* change of the chain, which nothing promises.  The fairness is asked for *)
(* from the interrupt on, which is where the loop is to end, and from then *)
(* on the chain and the mempool stay as they are.                          *)
(***************************************************************************)
\* The turn of the loop on a time-out of the wait, once g_shutdown is set.
TimedOutAtShutdown == g_shutdown /\ BlockWatcherLoop(FALSE, "ok")

InitWatch == InitWith({Config(FALSE, FALSE, 0)}, {0})

NextWatch ==
    \/ stratum_accept_conn_cb(Speaker, TRUE)
    \/ Read(Speaker, {<<Authorize(<<"A">>, <<>>)>>}, {"ok"}, {"share"})
    \/ \E woken \in BOOLEAN : BlockWatcherLoop(woken, "ok")
    \/ ~g_shutdown /\ MempoolUpdate
    \/ ~g_shutdown /\ NewTip(MaxTip)
    \/ InterruptStratumServer(TRUE)

SpecWatch ==
    InitWatch /\ [][NextWatch]_vars /\ WF_vars(TimedOutAtShutdown)

\* C19 as stated: once g_shutdown is set the loop of BlockWatcher ends,
\* with no further change of the chain or of the mempool.
WatcherExits == g_shutdown ~> block_watcher_thread = "exited"

(***************************************************************************)
(* The lock.  Each callback above is the body of a function whose first    *)
(* statement is LOCK(cs_stratum) and which releases the lock when it       *)
(* returns.  Here the three threads take the lock, run the bodies and      *)
(* release it in steps of their own, while the chain advances.             *)
(***************************************************************************)
\* What cs_stratum is to guard.
guarded == <<subscriptions, work_templates, second_stages, tip, job_id,
             transactions_updated_last, last_update_time, bound_listeners,
             listeners, bufferevents, g_shutdown, block_watcher_thread>>

\* A lock that is given to whoever asks.
LockAnyway(t) ==
    /\ ~crashed
    /\ at[t] = "idle"
    /\ cs_stratum' = t
    /\ at' = [at EXCEPT ![t] = "body"]
    /\ UNCHANGED <<envVars, guarded, hung, crashed, txns_updated_last, obsVars>>

\* LOCK(cs_stratum): the thread gets past it when no other thread holds it.
Lock(t) ==
    /\ ~crashed
    /\ cs_stratum = "free"
    /\ at[t] = "idle"
    /\ cs_stratum' = t
    /\ at' = [at EXCEPT ![t] = "body"]
    /\ UNCHANGED <<envVars, guarded, hung, crashed, txns_updated_last, obsVars>>

\* The end of the scope of LOCK(cs_stratum); a body that never returns or
\* that ended the process releases nothing.
Unlock(t) ==
    /\ Running
    /\ cs_stratum = t
    /\ at[t] = "body"
    /\ cs_stratum' = "free"
    /\ at' = [at EXCEPT ![t] = "idle"]
    /\ UNCHANGED <<envVars, guarded, hung, crashed, txns_updated_last, obsVars>>

\* Thread t is in the body of a function that took the lock.
InBody(t) == at[t] = "body"

InitLock == InitWith({Config(FALSE, FALSE, 0)}, {0})

NextLock ==
    \/ \E t \in Threads : Lock(t)
    \/ \E t \in Threads : Unlock(t)
    \/ \E c \in Clients, allowed \in BOOLEAN :
          InBody("event") /\ stratum_accept_conn_cb(c, allowed)
    \/ \E c \in Clients, what \in Whats : InBody("event") /\ stratum_event_cb(c, what)
    \/ InBody("event")
          /\ Read(Speaker, {<<Authorize(<<"A">>, <<>>)>>, <<Authorize(<<"A">>, <<",">>)>>},
                  {"ok"}, {"share"})
    \/ \E woken \in BOOLEAN : InBody("watcher") /\ BlockWatcherLoop(woken, "ok")
    \/ MempoolUpdate
    \/ NewTip(MaxTip)
    \/ \E survives \in BOOLEAN : InBody("main") /\ InterruptStratumServer(survives)
    \/ \E survives \in BOOLEAN : InBody("main") /\ StopStratumServer(survives)

SpecLock == InitLock /\ [][NextLock]_vars

\* The thread that runs the function an event is of.
CallerOf(type) ==
    IF type \in {"accept", "reject", "read", "close", "event"} THEN "event"
    ELSE IF type \in {"watch", "exit"} THEN "watcher"
    ELSE IF type \in {"interrupt", "stop"} THEN "main"
    ELSE "none"

\* C20: a thread is in the body of a callback, of a watcher pass or of
\* interrupt or stop only while it holds cs_stratum, so no two threads are
\* in such bodies at once; and subscriptions, bound_listeners,
\* work_templates, second_stages, g_shutdown and the sessions change only
\* in a step of the thread that holds the lock, which is the thread the
\* function belongs to.
BodiesUnderLock ==
    [][/\ \A t \in Threads : at'[t] = "body" => cs_stratum' = t
       /\ \A t \in Threads, u \in Threads : (at'[t] = "body" /\ at'[u] = "body") => t = u
       /\ guarded' # guarded =>
             /\ cs_stratum # "free"
             /\ cs_stratum' = cs_stratum
             /\ at[cs_stratum] = "body"
             /\ CallerOf(ev'.type) = cs_stratum]_vars

\* The watcher waits for the lock while the event thread, in a callback,
\* has changed the sessions.
BodiesUnderLockSeen ==
    /\ cs_stratum = "event"
    /\ at["event"] = "body"
    /\ at["watcher"] = "idle"
    /\ ev.type = "read"
    /\ \E c \in DOMAIN subscriptions : subscriptions[c].m_authorized

(***************************************************************************)
(* The cache under use: a merge-mining miner on a node with witness and    *)
(* block-final transaction gets work, submits shares and blocks for the    *)
(* jobs it was sent and is served by the watcher, while the chain and the  *)
(* auxiliary work change, the clock runs past the age limit, and the       *)
(* server is stopped.                                                      *)
(***************************************************************************)
InitKeep == InitWith({Config(TRUE, TRUE, 0)}, {0})

NextKeep ==
    \/ stratum_accept_conn_cb(Speaker, TRUE)
    \/ Read(Speaker, {<<l>> : l \in {MergeMiner} \cup SubmitLines(Speaker)}, {"ok"},
            {"share", "block"})
    \/ BlockWatcher("ok")
    \/ Tick(MaxAge + 1)
    \/ NewTip(MaxTip)
    \/ AuxChange(DefaultAuxPowPath, MaxCommit)
    \/ InterruptStratumServer(TRUE)
    \/ StopStratumServer(TRUE)

SpecKeep == InitKeep /\ [][NextKeep]_vars

\* C21: no step changes a template that is and stays in work_templates:
\* templates are inserted and erased, never written.
TemplatesAreKept ==
    [][\A k \in DOMAIN work_templates \cap DOMAIN work_templates' :
           work_templates'[k] = work_templates[k]]_vars

\* A block was submitted for a job whose template has witness and a
\* block-final transaction with a merge-mining commitment, the time of the
\* notify was refreshed, and the template is in the cache with its own time.
TemplatesAreKeptSeen ==
    /\ ev.type = "read"
    /\ Len(ev.shares) = 1
    /\ ev.shares[1].path = "primary"
    /\ ev.shares[1].mmroot # None
    /\ Has(work_templates, ev.shares[1].job)
    /\ work_templates[ev.shares[1].job].m_is_witness_enabled
    /\ \E k \in DOMAIN sent[ev.c].jobs :
          /\ k[1] = ev.shares[1].job
          /\ sent[ev.c].jobs[k].nTime > work_templates[k[1]].m_block_template.nTime


(***************************************************************************)
(* Shares that are blocks.                                                 *)
(***************************************************************************)
\* The job a mining.submit names on the primary path, as the handler parses
\* it, and whether the handler gets as far as SubmitBlock with it.
PrimaryJobOf(params) ==
    LET id == At(params, 1).payload
        pos == Find(id, ":", 0)
    IN [job |-> ParseUInt256(Str(IF pos # NPOS THEN Substr(id, 0, pos) ELSE id)),
        mmroot |-> IF pos # NPOS THEN ParseUInt256(Str(SubstrFrom(id, pos + 1)))
                   ELSE Value(None)]

CachedJobSubmit(line, templates) ==
    /\ line.method = "mining.submit"
    /\ BoundParams(line.params, 5, 6)
    /\ At(line.params, 1).t = "str"
    /\ ~(At(line.params, 1).payload # <<>> /\ At(line.params, 1).payload[1] = ":")
    /\ ParseHexV(At(line.params, 2)).threw = "none"
    /\ Len(ParseHexV(At(line.params, 2)).v) = En2Len
    /\ ParseHexInt4(At(line.params, 3)).threw = "none"
    /\ ParseHexInt4(At(line.params, 4)).threw = "none"
    /\ (Len(line.params) > 5 => ParseHexInt4(At(line.params, 5)).threw = "none")
    /\ PrimaryJobOf(line.params).job.threw = "none"
    /\ PrimaryJobOf(line.params).mmroot.threw = "none"
    /\ Has(templates, PrimaryJobOf(line.params).job.v)

\* The coinbase SubmitBlock is to put in the block: the template's with the
\* height, the session's extranonce1 and the share's extranonce2 in its
\* input and the session's address in its first output, the segregated
\* witness commitment renewed.
CustomizedCoinbase(client, current_work, job, mmroot, extranonce2) ==
    LET block == current_work.m_block_template
        cb == CustomizeCoinbase(block.cb, current_work.m_height,
                                ExtraNonce1(client, job) \o extranonce2, client.m_addr)
        bf == IF block.has_block_final_tx
              THEN UpdateBlockFinalTransaction(block.bf, mmroot).bf ELSE block.bf
    IN SerializeNoWitness(IF current_work.m_is_witness_enabled
                          THEN UpdateSegwitCommitment(current_work, cb, bf).cb ELSE cb)

BlocksOf(calls) == SelectSeq(calls, LAMBDA x : x.call = "ProcessNewBlock")

BlockIsProcessedAt(i) ==
    LET line == ev'.lines[i]
        r == ev'.replies[i]
        id == PrimaryJobOf(line.params)
        share == r.shares[1]
        blocks == BlocksOf(r.calls)
    IN /\ r.threw = "none"
       /\ Len(r.frames) = 1 /\ r.frames[1].result = "true" /\ r.frames[1].error = "none"
       /\ Len(r.shares) = 1
       /\ share.pow =>
             /\ Len(blocks) = 1
             /\ blocks[1].cb = CustomizedCoinbase(r.before, work_templates[id.job.v], id.job.v,
                                                  id.mmroot.v,
                                                  ParseHexV(At(line.params, 2)).v)
             /\ blocks[1].header = share.header
             /\ blocks[1].header.nBits = work_templates[id.job.v].m_block_template.nBits
       /\ ~share.pow => blocks = <<>>
       /\ share.res =>
             /\ r.after.m_send_work
             /\ ev'.send_work
             /\ Len(out'[ev'.c]) > Requests'

\* C22: a mining.submit for a cached job is answered true; when its header
\* meets nBits ProcessNewBlock is called exactly once, with the block
\* rebuilt around the customized coinbase, and when ProcessNewBlock
\* succeeds send_work is set and work is sent after the replies of the
\* read; when the header does not meet nBits ProcessNewBlock is not called.
BlockIsProcessed ==
    [][(ev'.type = "read" /\ ~hung') =>
          \A i \in 1 .. Len(ev'.replies) :
              CachedJobSubmit(ev'.lines[i], work_templates) => BlockIsProcessedAt(i)]_vars

BlockIsProcessedSeen ==
    /\ ev.type = "read" /\ Len(ev.replies) = 1 /\ Len(ev.shares) = 1
    /\ ev.shares[1].path = "primary" /\ ev.shares[1].res
    /\ Len(BlocksOf(ev.calls)) = 1
    /\ ev.send_work
    /\ subscriptions[ev.c].m_supports_extranonce


(***************************************************************************)
(* Shares for the auxiliary chains.                                        *)
(***************************************************************************)
TwoChains == Authorize(<<"A">>, <<"a", "=", "u", ",", "b", "=", "v">>)
OtherChain == Authorize(<<"A">>, <<"b", "=", "w">>)

InitAux == InitWith({Config(TRUE, TRUE, 0), Config(FALSE, TRUE, 0)}, {0})

AuxLines(c) ==
    {MergeMiner, TwoChains, OtherChain, Authorize(<<"B">>, <<>>)} \cup SubmitLines(c)

NextAux ==
    \/ stratum_accept_conn_cb(Speaker, TRUE)
    \/ Read(Speaker, {<<l>> : l \in AuxLines(Speaker)}, {"ok"}, {"share", "block"})
    \/ \E ch \in Chains : AuxChange(ch, MaxCommit)

SpecAux == InitAux /\ [][NextAux]_vars

AuxOf(calls) == SelectSeq(calls, LAMBDA x : x.call = "SubmitAuxChainShare")

AuxSharesAt(i) ==
    LET line == ev'.lines[i]
        r == ev'.replies[i]
        id == PrimaryJobOf(line.params)
        current_work == work_templates[id.job.v]
        bundle == r.before.m_mmwork[id.mmroot.v].second
        auxcalls == AuxOf(r.calls)
    IN IF /\ current_work.m_is_witness_enabled
          /\ current_work.m_block_template.has_block_final_tx
          /\ Has(r.before.m_mmwork, id.mmroot.v)
       THEN /\ \A ch \in Chains :
                  Cardinality({k \in 1 .. Len(auxcalls) : auxcalls[k].chain = ch})
                      = IF ch \in DOMAIN bundle /\ Has(r.before.m_mmauth, ch) THEN 1 ELSE 0
            /\ \A k \in 1 .. Len(auxcalls) :
                  /\ auxcalls[k].chain \in Chains
                  /\ auxcalls[k].username = r.before.m_mmauth[auxcalls[k].chain][1]
                  /\ auxcalls[k].commit = bundle[auxcalls[k].chain].commit
       ELSE auxcalls = <<>>

\* C23: SubmitAuxChainShare is called only from a share for a cached job
\* whose template has a block-final transaction and witness enabled and
\* whose mmroot is a key of the session's m_mmwork; then it is called once
\* for each chain of the stored bundle that is in the session's m_mmauth,
\* with that chain's user name and work, and for no other chain.
AuxSharesRule ==
    [][ev'.type = "read" =>
          \A i \in 1 .. Len(ev'.replies) :
              IF CachedJobSubmit(ev'.lines[i], work_templates) /\ ev'.replies[i].threw = "none"
              THEN AuxSharesAt(i)
              ELSE AuxOf(ev'.replies[i].calls) = <<>>]_vars

\* A share went to the second chain from a session that holds a bundle for
\* each chain.
AuxSharesRuleSeen ==
    /\ ev.type = "read" /\ Len(ev.replies) = 1 /\ Len(ev.shares) = 1
    /\ Len(AuxOf(ev.calls)) = 1
    /\ AuxOf(ev.calls)[1].chain = 2
    /\ Cardinality(DOMAIN ev.replies[1].before.m_mmwork) = 2

\* A share for a bundle whose chain the session is no longer authorized for
\* went nowhere.
AuxSharesSkipped ==
    /\ ev.type = "read" /\ Len(ev.replies) = 1 /\ Len(ev.shares) = 1
    /\ Has(ev.replies[1].before.m_mmwork, ev.shares[1].mmroot)
    /\ AuxOf(ev.calls) = <<>>


(***************************************************************************)
(* Shares of second-stage work.                                            *)
(***************************************************************************)
InitSecond == InitWith({Config(FALSE, FALSE, 0)}, {0})

SecondLines ==
    {Subscribe, MergeMiner, Authorize(<<"B">>, <<>>), ExtranonceSubscribe,
     Configure(WideMask)}
    \cup {Submit(<<":">> \o j, 1000) : j \in {<<"x">>, <<"y">>}}
    \cup {SubmitRolled(<<":", "x">>, 1000, <<255, 255, 255, 255>>)}

NextSecond ==
    \/ stratum_accept_conn_cb(Speaker, TRUE)
    \/ Read(Speaker, {<<l>> : l \in SecondLines}, {"ok"}, {"share", "block"})
    \/ \E offer \in SecondStageOffers : SecondStageChange(offer)

SpecSecond == InitSecond /\ [][NextSecond]_vars

\* mining.submit, well formed, for second-stage work that is held.
SecondStageSubmit(line, stages) ==
    /\ line.method = "mining.submit"
    /\ BoundParams(line.params, 5, 6)
    /\ At(line.params, 1).t = "str"
    /\ At(line.params, 1).payload # <<>> /\ At(line.params, 1).payload[1] = ":"
    /\ ParseHexV(At(line.params, 2)).threw = "none"
    /\ Len(ParseHexV(At(line.params, 2)).v) = En2Len
    /\ ParseHexInt4(At(line.params, 3)).threw = "none"
    /\ ParseHexInt4(At(line.params, 4)).threw = "none"
    /\ (Len(line.params) > 5 => ParseHexInt4(At(line.params, 5)).threw = "none")
    /\ Has(stages, SubstrFrom(At(line.params, 1).payload, 1))

SecondOf(calls) == SelectSeq(calls, LAMBDA x : x.call = "SubmitSecondStageShare")

\* The share is passed on once, and with what the handler parsed and holds.
PassedOnAt(i) ==
    LET line == ev'.lines[i]
        r == ev'.replies[i]
        item == second_stages[SubstrFrom(At(line.params, 1).payload, 1)]
        passed == SecondOf(r.calls)
    IN /\ Len(passed) = 1
       /\ passed[1].chain = item.first
       /\ passed[1].username = r.before.m_mmauth[item.first][1]
       /\ passed[1].work = item.second
       /\ passed[1].extranonce1 = ExtraNonce1(r.before, item.first)
       /\ passed[1].extranonce2 = ParseHexV(At(line.params, 2)).v
       /\ passed[1].nTime = ParseHexInt4(At(line.params, 3)).v
       /\ passed[1].nNonce = ParseHexInt4(At(line.params, 4)).v
       /\ passed[1].nVersion =
              IF Len(line.params) > 5
              THEN RollVersion(item.second.nVersion, ParseHexInt4(At(line.params, 5)).v,
                               r.before.m_version_rolling_mask)
              ELSE item.second.nVersion

\* The extranonce1 of the proof is the one the miner was told with the
\* notify of the job.
AnnouncedAt(i) ==
    LET J == SubstrFrom(At(ev'.lines[i].params, 1).payload, 1)
        passed == SecondOf(ev'.replies[i].calls)
    IN (Has(sent[ev'.c].second, J) /\ sent[ev'.c].second[J] # <<>>) =>
           \A k \in 1 .. Len(passed) : passed[k].extranonce1 = sent[ev'.c].second[J]

\* C24: a mining.submit whose job id is ':' and a key J of second_stages
\* calls SubmitSecondStageShare exactly once, with the chain id and the work
\* stored under J, the user name of the session's m_mmauth for that chain,
\* the extranonce1 derived from that chain id, which is the one announced
\* with the notify, the extranonce2, nTime and nNonce of the share and the
\* version after rolling.
SecondStageShareRule ==
    [][ev'.type = "read" =>
          \A i \in 1 .. Len(ev'.replies) :
              SecondStageSubmit(ev'.lines[i], second_stages) =>
                  /\ Has(ev'.replies[i].before.m_mmauth,
                         second_stages[SubstrFrom(At(ev'.lines[i].params, 1).payload, 1)].first)
                  /\ PassedOnAt(i)
                  /\ AnnouncedAt(i)]_vars

\* What holds of the same shares: for a session that has the chain in
\* m_mmauth the call is made once and with all of the above but the
\* announcement; for any other session no call is made.
SecondStageShareWhenAuthorized ==
    [][ev'.type = "read" =>
          \A i \in 1 .. Len(ev'.replies) :
              SecondStageSubmit(ev'.lines[i], second_stages) =>
                  IF Has(ev'.replies[i].before.m_mmauth,
                         second_stages[SubstrFrom(At(ev'.lines[i].params, 1).payload, 1)].first)
                  THEN PassedOnAt(i)
                  ELSE SecondOf(ev'.replies[i].calls) = <<>>]_vars

\* The proof carries the announced extranonce1 whenever a call is made.
SecondStageAnnounced ==
    [][ev'.type = "read" =>
          \A i \in 1 .. Len(ev'.replies) :
              SecondStageSubmit(ev'.lines[i], second_stages) => AnnouncedAt(i)]_vars


(***************************************************************************)
(* When the template is rebuilt.                                           *)
(***************************************************************************)
InitRebuild == InitWith({Config(FALSE, FALSE, 0)}, {0})

NextRebuild ==
    \/ stratum_accept_conn_cb(Speaker, TRUE)
    \/ Read(Speaker, {<<Authorize(<<"A">>, <<>>)>>, <<Submit(HexOfUInt256(None), StartTime)>>},
            {"ok"}, {"share"})
    \/ Tick(RebuildDelay)
    \/ Tick(1)
    \/ MempoolUpdate
    \/ NewTip(MaxTip)

SpecRebuild == InitRebuild /\ [][NextRebuild]_vars

\* The step is a read that ends in one call of GetWorkUnit on the primary
\* path.
PrimaryRequest ==
    /\ ev'.type = "read" /\ ev'.send_work /\ ev'.ready = "ok"
    /\ subscriptions'[ev'.c].m_authorized
    /\ ~ssw.some

\* A template was built and put into the cache as the current job.
Rebuilt ==
    /\ <<work_templates, job_id, tip, transactions_updated_last, last_update_time>>'
           # <<work_templates, job_id, tip, transactions_updated_last, last_update_time>>
    /\ Has(work_templates', job_id')
    /\ work_templates'[job_id'].m_block_template.hashPrevBlock = chainTip
    /\ tip' = chainTip
    /\ transactions_updated_last' = txUpdated
    /\ last_update_time' = now

Reused ==
    /\ UNCHANGED <<work_templates, job_id, tip, transactions_updated_last, last_update_time>>
    /\ Has(work_templates, job_id)

\* C25 as stated: the rebuild happens if and only if the tip changed, or
\* the mempool changed and at least 5 seconds passed since the last rebuild,
\* or the current job is not in work_templates; otherwise the current job
\* is reused and nothing of the cache changes.
RebuildAtFiveSeconds ==
    [][PrimaryRequest =>
          IF \/ tip # chainTip
             \/ (txUpdated # transactions_updated_last /\ now - last_update_time >= 5)
             \/ ~Has(work_templates, job_id)
          THEN Rebuilt ELSE Reused]_vars

\* C25: the rebuild happens if and only if the tip changed, or the mempool
\* changed and more than 5 seconds passed since the last rebuild, or the
\* current job is not in work_templates; otherwise the current job is
\* reused and nothing of the cache changes.
RebuildAfterFiveSeconds ==
    [][PrimaryRequest =>
          IF \/ tip # chainTip
             \/ (txUpdated # transactions_updated_last /\ now - last_update_time > 5)
             \/ ~Has(work_templates, job_id)
          THEN Rebuilt ELSE Reused]_vars

\* Work was asked for 5 seconds after the last rebuild with the mempool
\* changed, and the current job was sent again.
RebuildAfterFiveSecondsSeen ==
    /\ ev.type = "read" /\ ev.send_work /\ ev.ready = "ok"
    /\ subscriptions[ev.c].m_authorized
    /\ txUpdated # transactions_updated_last
    /\ now - last_update_time = 5
    /\ tip = chainTip
    /\ Len(out[ev.c]) > Requests
    /\ out[ev.c][Len(out[ev.c])].kind = "mining.notify"


(***************************************************************************)
(* mining.set_extranonce.                                                  *)
(***************************************************************************)
\* C26 as stated: a mining.set_extranonce is sent only to a session that
\* asked for extranonce updates, and only with an extranonce1 other than
\* the one the session was told last.
SetExtranonceOnlyOnChange ==
    [][\A c \in DOMAIN subscriptions' : \A i \in 1 .. Len(out'[c]) :
          out'[c][i].kind = "mining.set_extranonce" =>
              /\ subscriptions'[c].m_supports_extranonce
              /\ out'[c][i].extranonce1 # sent[c].en1]_vars

\* What the hash behind the extranonce1 of a notify is keyed with.
ExtraNonceKey(client, notify) ==
    IF notify.path = "second" THEN client.m_last_second_stage.first ELSE notify.job_id

\* C26: a work emission starts with a mining.set_extranonce if and only if
\* the session asked for extranonce updates; the frame carries the
\* extranonce1 of the job of the emission, changed or not, and no
\* mining.set_extranonce is sent apart from an emission.
SetExtranonceRule ==
    \A c \in DOMAIN subscriptions :
        /\ \A i \in Notifies(c) :
              /\ (i > 2 /\ out[c][i - 2].kind = "mining.set_extranonce")
                     <=> subscriptions[c].m_supports_extranonce
              /\ subscriptions[c].m_supports_extranonce =>
                     out[c][i - 2].extranonce1
                         = ExtraNonce1(subscriptions[c], ExtraNonceKey(subscriptions[c], out[c][i]))
        /\ \A i \in 1 .. Len(out[c]) :
              out[c][i].kind = "mining.set_extranonce" => (i + 2) \in Notifies(c)

\* A session that asked for extranonce updates authorizes again and is
\* sent the job it has, with the extranonce1 it was already told.
SetExtranonceRuleSeen ==
    /\ ev.type = "read" /\ Len(ev.replies) = 1
    /\ ev.replies[1].before.m_supports_extranonce
    /\ ev.replies[1].before.m_last_tip = tip
    /\ ev.replies[1].before.m_mmwork = subscriptions[ev.c].m_mmwork
    /\ ~ev.rebuilt
    /\ Len(out[ev.c]) = 4
    /\ out[ev.c][2].kind = "mining.set_extranonce"
    /\ out[ev.c][4].path = "primary"


(***************************************************************************)
(* The options of the password.                                            *)
(***************************************************************************)
\* Options a miner may write: the two chains by name, the second with
\* blanks around its parts, an address, a word that is nothing, and a
\* keyword that is neither a chain name nor the hex of a chain id.
PasswordOptions ==
    {<<"a", "=", "u">>, <<" ", "b", " ", "=", " ", "w", " ">>,
     <<"A">>, <<"z", "z">>, <<"z", "z", "=", "u">>}

MaxOptions == 3

RECURSIVE Passwords(_)
Passwords(n) ==
    IF n = 1 THEN PasswordOptions
    ELSE Passwords(n - 1)
         \cup {p \o <<",">> \o o : p \in Passwords(n - 1), o \in PasswordOptions}

InitOptions == InitWith({Config(FALSE, TRUE, 0)}, {0})

NextOptions ==
    \/ stratum_accept_conn_cb(Speaker, TRUE)
    \/ Read(Speaker,
            {<<Authorize(<<"A">>, p)>> : p \in Passwords(MaxOptions)}
                \cup {<<AuthorizeUserOnly(<<"A">>)>>},
            {"ok"}, {"share"})
    \/ stratum_event_cb(Speaker, "eof")

SpecOptions == InitOptions /\ [][NextOptions]_vars

\* The substrings of a password between its commas, trimmed.
RECURSIVE Pieces(_, _, _)
Pieces(password, start, acc) ==
    LET pos == Find(password, ",", start) IN
    IF pos = NPOS THEN Append(acc, Trim(SubstrFrom(password, start)))
    ELSE Pieces(password, pos + 1, Append(acc, Trim(Substr(password, start, pos - start))))

\* Line i of the last read is a mining.authorize with a user name and a
\* password, the user name a valid address and no option of the password
\* empty.
AuthorizeWithOptions(i) ==
    /\ ev.lines[i].method = "mining.authorize"
    /\ ev.lines[i].nparams = 2
    /\ ev.lines[i].valid_authorize
    /\ At(ev.lines[i].params, 1).t = "str"
    /\ \A k \in DOMAIN Pieces(Trim(At(ev.lines[i].params, 1).payload), 0, <<>>) :
           Pieces(Trim(At(ev.lines[i].params, 1).payload), 0, <<>>)[k] # <<>>

PiecesOf(i) == Pieces(Trim(At(ev.lines[i].params, 1).payload), 0, <<>>)

\* An option the handler has a use for: a chain by name or by the hex of
\* its id, or an address.
Recognised(opt) ==
    LET pos == Find(opt, "=", 0) IN
    IF pos # NPOS
    THEN \/ IsChainName(TrimRight(Substr(opt, 0, pos)))
         \/ ParseUInt256(Str(TrimRight(Substr(opt, 0, pos)))).threw = "none"
    ELSE IsValidAddress(opt)

Granted(i, mmauth) ==
    /\ ev.replies[i].threw = "none"
    /\ ev.replies[i].frames = <<ReplyFrame("true", <<>>, ev.lines[i].id)>>
    /\ ev.replies[i].after.m_authorized
    /\ ev.replies[i].after.m_mmauth = mmauth

\* C27: an authorize whose password has n options, none of them empty and
\* each of them a chain or an address, registers what the n trimmed
\* substrings between the commas say, each taken once and on its own.
OptionsAreSplit ==
    ev.type = "read" =>
        \A i \in 1 .. Len(ev.replies) :
            (/\ AuthorizeWithOptions(i)
             /\ \A k \in DOMAIN PiecesOf(i) : Recognised(PiecesOf(i)[k])) =>
                Granted(i, AddOptions(EmptyMap, PiecesOf(i)).v)

\* Passwords of at most two options are cut where their comma is.
TwoOptionsAreSplit ==
    ev.type = "read" =>
        \A i \in 1 .. Len(ev.replies) :
            (/\ AuthorizeWithOptions(i)
             /\ Len(PiecesOf(i)) <= 2
             /\ \A k \in DOMAIN PiecesOf(i) : Recognised(PiecesOf(i)[k])) =>
                Granted(i, AddOptions(EmptyMap, PiecesOf(i)).v)

\* C28: an option that is no chain name, no hex of a chain id and no address
\* is passed over: the authorize is granted with what the other options
\* register.  Passwords of one or two options, which are cut where their
\* comma is.
UnknownOptionsAreSkipped ==
    ev.type = "read" =>
        \A i \in 1 .. Len(ev.replies) :
            (AuthorizeWithOptions(i) /\ Len(PiecesOf(i)) <= 2) =>
                Granted(i, AddOptions(EmptyMap, SelectSeq(PiecesOf(i), Recognised)).v)

\* The same for the options that have no '=' in them.
UnknownWordsAreSkipped ==
    ev.type = "read" =>
        \A i \in 1 .. Len(ev.replies) :
            (/\ AuthorizeWithOptions(i) /\ Len(PiecesOf(i)) <= 2
             /\ \A k \in DOMAIN PiecesOf(i) :
                    Recognised(PiecesOf(i)[k]) \/ Find(PiecesOf(i)[k], "=", 0) = NPOS) =>
                Granted(i, AddOptions(EmptyMap, SelectSeq(PiecesOf(i), Recognised)).v)

\* C29: an authorize with the user name alone, a valid address, is granted,
\* and the session has no merge-mining credentials.
OneParameterAuthorize ==
    ev.type = "read" =>
        \A i \in 1 .. Len(ev.replies) :
            (/\ ev.lines[i].method = "mining.authorize"
             /\ ev.lines[i].nparams = 1
             /\ ev.lines[i].valid_authorize) =>
                Granted(i, EmptyMap)


(***************************************************************************)
(* The watcher and sessions that have the current work.                    *)
(***************************************************************************)
\* The last notify of the session was for the second-stage work on offer.
HasCurrentSecondStage(client) ==
    /\ ssw.some
    /\ client.m_last_second_stage = SomePair(ssw.first, ssw.second.hashPrevBlock)

\* The last notify of the session was for the current tip and the session
\* holds the bundle of the commitment its chains ask for now.
HasCurrentCommitment(client) ==
    /\ ~ssw.some
    /\ client.m_last_tip = chainTip
    /\ Cardinality(DOMAIN GetMergeMineWork(client.m_mmauth, Env)) = 1
    /\ Has(client.m_mmwork, AuxWorkMerkleRoot(GetMergeMineWork(client.m_mmauth, Env)))

\* The session has no merge-mining subscriptions and never had a bundle,
\* and its last notify was the primary work of the current tip.
HasCurrentTip(c, client) ==
    /\ ~ssw.some
    /\ client.m_mmauth = EmptyMap /\ client.m_mmwork = EmptyMap
    /\ client.m_last_tip = chainTip
    /\ sent[c].last.path = "primary" /\ sent[c].last.tip = chainTip

\* C30: a pass of the watcher sends nothing to an authorized session whose
\* last notify was for the current tip and commitment, or for the
\* second-stage work on offer, sessions without merge-mining subscriptions
\* included.
WatcherCoalesces ==
    [][ev'.type = "watch" =>
          \A c \in DOMAIN subscriptions :
              (/\ subscriptions[c].m_authorized
               /\ \/ HasCurrentSecondStage(subscriptions[c])
                  \/ HasCurrentCommitment(subscriptions[c])
                  \/ HasCurrentTip(c, subscriptions[c])) =>
                  out'[c] = <<>> /\ c \notin ev'.called]_vars

\* The same without the sessions that have no commitment to hold a bundle
\* of.
WatcherSkipsHeldWork ==
    [][ev'.type = "watch" =>
          \A c \in DOMAIN subscriptions :
              (/\ subscriptions[c].m_authorized
               /\ \/ HasCurrentSecondStage(subscriptions[c])
                  \/ HasCurrentCommitment(subscriptions[c])) =>
                  out'[c] = <<>> /\ c \notin ev'.called]_vars

(***************************************************************************)
(* The watcher and the signal of a block change.  The watcher thread is    *)
(* either in cvBlockChange.timed_wait ("idle"), has been woken by a signal *)
(* ("woken"), or is in the rest of the loop on its way back to the wait    *)
(* ("body").  A condition variable keeps no signal for a thread that is    *)
(* not waiting on it.                                                      *)
(***************************************************************************)
\* cvBlockChange.notify_all()
NotifyAll == at' = [at EXCEPT !["watcher"] = IF @ = "idle" THEN "woken" ELSE @]

EnvSignal(what) ==
    /\ Running
    /\ out' = NoFrames
    /\ ev' = Event(what, 0)
    /\ NotifyAll
    /\ UNCHANGED <<subscriptions, work_templates, second_stages, tip, job_id,
                   transactions_updated_last, last_update_time, bound_listeners,
                   listeners, bufferevents, g_shutdown, hung, crashed,
                   block_watcher_thread, txns_updated_last, cs_stratum, sent>>

\* A block is connected and the change is signalled.
TipSignal ==
    /\ chainTip < MaxTip
    /\ chainTip' = chainTip + 1
    /\ EnvSignal("tip")
    /\ UNCHANGED <<now, offset, txUpdated, aux, ssw, witness, hasbf, baseHeight, ticks>>

\* The endpoint of a chain gives another commitment and the change is
\* signalled.
AuxSignal(ch, commit) ==
    /\ aux[ch] # commit
    /\ aux' = [aux EXCEPT ![ch] = commit]
    /\ EnvSignal("aux")
    /\ UNCHANGED <<now, offset, chainTip, txUpdated, ssw, witness, hasbf, baseHeight, ticks>>

\* timed_wait returned true: the pass over the sessions.
WatcherWoken ==
    /\ at["watcher"] = "woken"
    /\ BlockWatcherTurn(TRUE, "ok")
    /\ at' = [at EXCEPT !["watcher"] = "body"]

\* timed_wait returned false after its 15 seconds: the pass over the
\* sessions if the counter of the mempool moved, nothing otherwise.
WatcherTimedOut ==
    /\ at["watcher"] = "idle"
    /\ block_watcher_thread = "running"
    /\ at' = [at EXCEPT !["watcher"] = "body"]
    /\ IF txns_updated_last = txUpdated
       THEN /\ Running
            /\ out' = NoFrames
            /\ ev' = Event("timeout", 0)
            /\ UNCHANGED <<envVars, subscriptions, work_templates, second_stages, tip,
                           job_id, transactions_updated_last, last_update_time,
                           bound_listeners, listeners, bufferevents, g_shutdown, hung,
                           crashed, block_watcher_thread, txns_updated_last, cs_stratum,
                           sent>>
       ELSE BlockWatcherTurn(FALSE, "ok")

\* The loop comes back to timed_wait.
WatcherWaits ==
    /\ at["watcher"] = "body"
    /\ block_watcher_thread = "running"
    /\ Running
    /\ at' = [at EXCEPT !["watcher"] = "idle"]
    /\ out' = NoFrames
    /\ ev' = Event("wait", 0)
    /\ UNCHANGED <<envVars, subscriptions, work_templates, second_stages, tip, job_id,
                   transactions_updated_last, last_update_time, bound_listeners,
                   listeners, bufferevents, g_shutdown, hung, crashed,
                   block_watcher_thread, txns_updated_last, cs_stratum, sent>>

InitSignal == InitWith({Config(FALSE, TRUE, 0)}, {0})

NextSignal ==
    \/ \E c \in Clients : stratum_accept_conn_cb(c, TRUE)
    \/ \E c \in Clients :
          /\ ~sent[c].any
          /\ Read(c, {<<Authorize(<<"A">>, <<>>)>>, <<MergeMiner>>}, {"ok"}, {"share"})
    \/ TipSignal
    \/ AuxSignal(1, MaxCommit)
    \/ MempoolUpdate /\ UNCHANGED at
    \/ WatcherWoken
    \/ WatcherTimedOut
    \/ WatcherWaits

\* The steps of the watcher thread as its position shows them: the only
\* steps of NextSignal that move the position of the watcher this way are
\* WatcherWoken, WatcherTimedOut and WatcherWaits, and each of them can be
\* taken wherever the thread runs and stands there.
WatcherMoves(from, to) ==
    /\ Running
    /\ block_watcher_thread = "running"
    /\ at["watcher"] = from
    /\ at' = [at EXCEPT !["watcher"] = to]

\* The watcher thread is scheduled: a woken watcher makes its pass, the
\* wait times out, and a watcher in the loop comes back to the wait.
SpecSignal ==
    /\ InitSignal
    /\ [][NextSignal]_vars
    /\ WF_at(WatcherMoves("woken", "body"))
    /\ WF_at(WatcherMoves("idle", "body"))
    /\ WF_at(WatcherMoves("body", "idle"))

\* The last notify of the session was made at the current tip.
ToldTip(c) == sent[c].last.tip = chainTip

\* The session was sent a job that commits to the bundle its chains ask for
\* now.
ToldCommitment(c) ==
    \E k \in DOMAIN sent[c].jobs :
        k[3] = AuxWorkMerkleRoot(GetMergeMineWork(subscriptions[c].m_mmauth, Env))

IsAuthorized(c) == c \in DOMAIN subscriptions /\ subscriptions[c].m_authorized

\* C31: with the watcher scheduled fairly, an authorized session is in the
\* end sent a notify made at the tip of the chain and for the commitment its
\* chains ask for, whether or not the mempool changes and wherever the
\* watcher stood when the change was signalled.
WatcherAnnouncesChange ==
    \A c \in Clients :
        /\ (IsAuthorized(c) /\ chainTip = MaxTip) ~> ToldTip(c)
        /\ (IsAuthorized(c) /\ aux[1] = MaxCommit /\ Has(subscriptions[c].m_mmauth, 1))
              ~> ToldCommitment(c)

\* A change that was signalled while the watcher was in its wait reaches
\* the session.
WatcherAnnouncesHeardChange ==
    \A c \in Clients :
        (IsAuthorized(c) /\ chainTip = MaxTip /\ at["watcher"] = "woken") ~> ToldTip(c)

\* The tip changed while the watcher was not in its wait, and the wait has
\* begun again with a session that was not told.
SignalWasLost ==
    \E c \in Clients :
        /\ IsAuthorized(c)
        /\ chainTip = MaxTip
        /\ ~ToldTip(c)
        /\ at["watcher"] = "idle"
        /\ txns_updated_last = txUpdated

(***************************************************************************)
(* The version of the header of a share.  One miner asks for version       *)
(* rolling with several masks, with lists of extensions that fail half     *)
(* way, or not at all, and submits shares with and without version bits    *)
(* for the primary and second-stage jobs it was sent.                      *)
(***************************************************************************)
\* 0xffffffff, 0x00000000, 0x00002001 and 0x20ffc000
RolledBits == {<<255, 255, 255, 255>>, <<0, 0, 0, 0>>, <<0, 0, 32, 1>>, <<32, 255, 192, 0>>}

VersionLines(c) ==
    {MergeMiner, Configure(WideMask), Configure(HexStr(<<0, 0, 96, 0>>)),
     ConfigureList(<<VersionRolling, Num(7)>>, HexStr(<<255, 255, 255, 255>>)),
     Submit(<<":", "x">>, 1000)}
    \cup {SubmitRolled(<<":", "x">>, 1000, b) : b \in RolledBits}
    \cup {SubmitRolled(JobIdString(k), sent[c].jobs[k].nTime, b) :
              k \in DOMAIN sent[c].jobs, b \in RolledBits}
    \cup SubmitLines(c)

InitVersion == InitWith({Config(FALSE, FALSE, 0)}, {0})

NextVersion ==
    \/ stratum_accept_conn_cb(Speaker, TRUE)
    \/ Read(Speaker, {<<l>> : l \in VersionLines(Speaker)}, {"ok"}, {"share"})
    \/ \E offer \in {NoPair, SomePair(1, SecondStageWork(<<"x">>, 7))} :
          SecondStageChange(offer)

SpecVersion == InitVersion /\ [][NextVersion]_vars

\* Bit b (0 the least significant) of a word given as its four bytes, most
\* significant first.
BitOf(bytes, b) == (bytes[4 - (b \div 8)] \div (2 ^ (b % 8))) % 2

\* The version of the template or second-stage work the line names.
TemplateVersionAt(i) ==
    IF SecondStageSubmit(ev'.lines[i], second_stages)
    THEN second_stages[SubstrFrom(At(ev'.lines[i].params, 1).payload, 1)].second.nVersion
    ELSE work_templates[PrimaryJobOf(ev'.lines[i].params).job.v].m_block_template.nVersion

\* The header of the share of line i has, bit by bit, the version bit of
\* the share under the mask of the session and the bit of the template
\* elsewhere; without version bits in the share it has the version of the
\* template.
VersionIsRolledAt(i) ==
    LET line == ev'.lines[i]
        r == ev'.replies[i]
        version == ToBytes(r.shares[1].header.nVersion, 4)
        template == ToBytes(TemplateVersionAt(i), 4)
        mask == ToBytes(r.before.m_version_rolling_mask, 4)
        bits == ParseHex(At(line.params, 5).payload)
    IN /\ r.shares[1].header.nVersion >= 0
       /\ IF Len(line.params) > 5
          THEN /\ \A b \in 0 .. 31 :
                      BitOf(version, b) = IF BitOf(mask, b) = 1 THEN BitOf(bits, b)
                                          ELSE BitOf(template, b)
               /\ \A b \in 0 .. 31 :
                      BitOf(ToBytes(VersionRollingMask, 4), b) = 0 =>
                          BitOf(version, b) = BitOf(template, b)
               /\ r.before.m_version_rolling_mask = 0 => version = template
          ELSE version = template

\* C32: the version of the header of every share of a job that is held,
\* primary or second-stage, is (template version & ~mask) | (submitted bits
\* & mask) with the mask of the session: no bit outside of 0x1fffe000
\* differs from the template's, and under the mask 0 the version is the
\* template's.
VersionIsRolled ==
    [][ev'.type = "read" =>
          \A i \in 1 .. Len(ev'.replies) :
              (/\ \/ SecondStageSubmit(ev'.lines[i], second_stages)
                  \/ CachedJobSubmit(ev'.lines[i], work_templates)
               /\ Len(ev'.replies[i].shares) > 0) =>
                  VersionIsRolledAt(i)]_vars

\* A share for the job on the given path with version bits, of a session
\* with the given mask.
RolledShareSeen(path, masked) ==
    /\ ev.type = "read"
    /\ Len(ev.lines) = 1
    /\ Len(ev.lines[1].params) > 5
    /\ Len(ev.replies[1].shares) = 1
    /\ ev.replies[1].shares[1].path = path
    /\ (ev.replies[1].before.m_version_rolling_mask # 0) = masked
    /\ ParseHex(At(ev.lines[1].params, 5).payload) = <<255, 255, 255, 255>>

VersionIsRolledSeen ==
    /\ RolledShareSeen("primary", TRUE)
    /\ ev.replies[1].shares[1].header.nVersion # BlockVersion
VersionIsRolledSeenSecond ==
    /\ RolledShareSeen("second", TRUE)
    /\ ev.replies[1].shares[1].header.nVersion # BlockVersion
VersionIsKeptSeen == RolledShareSeen("primary", FALSE)
VersionIsKeptSeenSecond == RolledShareSeen("second", FALSE)

(***************************************************************************)
(* Peers inside and outside of -stratumallowip.  A connection is named by  *)
(* its peer; the first peer is inside the allowed subnets, the others are  *)
(* not.                                                                    *)
(***************************************************************************)
stratum_allow_subnets == {Speaker}

ClientAllowed(subnets, from) == from \in subnets

AllowLines(c) == {Subscribe, Authorize(<<"A">>, <<>>)} \cup SubmitLines(c)

InitAllow == InitWith({Config(FALSE, FALSE, 0)}, {0})

NextAllow ==
    \/ \E c \in Clients : stratum_accept_conn_cb(c, ClientAllowed(stratum_allow_subnets, c))
    \/ \E c \in Clients, what \in Whats : stratum_event_cb(c, what)
    \/ \E c \in Clients : Read(c, {<<l>> : l \in AllowLines(c)}, {"ok"}, {"share"})
    \/ BlockWatcher("ok")
    \/ NewTip(MaxTip)

SpecAllow == InitAllow /\ [][NextAllow]_vars

\* C33: every session of subscriptions is of a peer that
\* stratum_allow_subnets admits; an accept from a peer outside of it leaves
\* subscriptions as it is and makes no bufferevent, so that no callback is
\* ever run for that connection.
AcceptedAreAllowed ==
    [][/\ \A c \in DOMAIN subscriptions' : ClientAllowed(stratum_allow_subnets, c)
       /\ \A c \in Clients :
             ~ClientAllowed(stratum_allow_subnets, c) => bufferevents'[c] = 0 - 1
       /\ ev'.type = "reject" =>
             /\ ~ClientAllowed(stratum_allow_subnets, ev'.c)
             /\ subscriptions' = subscriptions
             /\ bufferevents' = bufferevents
             /\ out' = NoFrames
       /\ ev'.type \in {"read", "close", "event"} => ev'.c \in DOMAIN subscriptions]_vars

\* A peer outside of the allowed subnets was turned away while a session of
\* an allowed peer was held.
AcceptedAreAllowedSeen ==
    /\ ev.type = "reject"
    /\ ev.c \notin DOMAIN subscriptions
    /\ Speaker \in DOMAIN subscriptions
    /\ subscriptions[Speaker].m_authorized

(***************************************************************************)
(* The current job and the eviction pass: the template cache as above,     *)
(* with a miner that submits shares for the job of its last notify.        *)
(***************************************************************************)
\* A share for the job the statics of GetWorkUnit name, if the miner was
\* sent it.
CurrentLines(c) ==
    {Submit(JobIdString(k), sent[c].jobs[k].nTime) :
         k \in {x \in DOMAIN sent[c].jobs : x[1] = job_id}}

InitCurrent == InitWith({Config(FALSE, FALSE, 0)}, 0 .. MaxOffset)

NextCurrent ==
    \/ stratum_accept_conn_cb(Speaker, TRUE)
    \/ Read(Speaker, {<<Authorize(<<"A">>, <<>>)>>}, {"ok"}, {"share"})
    \/ Read(Speaker, {<<l>> : l \in CurrentLines(Speaker)}, {"ok"}, {"share"})
    \/ BlockWatcher("ok")
    \/ chainTip <= MaxTip /\ Tick(MaxAge \div 2 + 1)
    \/ tip = chainTip /\ NewTip(MaxCacheTips)

SpecCurrent == InitCurrent /\ [][NextCurrent]_vars

PrimaryNotifies(frames) ==
    SelectSeq(frames, LAMBDA f : f.kind = "mining.notify" /\ f.path = "primary")

\* C34: the job id of every primary-path notify is a key of work_templates
\* when the callback that sent it returns, and it is the current job,
\* which no eviction removes; a share that names the current job is not
\* answered as an unknown job.
CurrentJobIsKept ==
    [][/\ \A c \in Clients :
             \A i \in 1 .. Len(PrimaryNotifies(out'[c])) :
                 /\ Has(work_templates', PrimaryNotifies(out'[c])[i].job_id)
                 /\ PrimaryNotifies(out'[c])[i].job_id = job_id'
       /\ ev'.rebuilt => Has(work_templates', job_id')
       /\ Has(work_templates, job_id) => Has(work_templates', job_id')
       /\ (/\ ev'.type = "read"
           /\ Len(ev'.lines) = 1
           /\ ev'.lines[1].method = "mining.submit"
           /\ PrimaryJobOf(ev'.lines[1].params).job.v = job_id)
              => /\ Len(out'[ev'.c]) = 1
                 /\ out'[ev'.c][1].kind = "reply"
                 /\ out'[ev'.c][1].result = "true"
                 /\ ~ev'.send_work]_vars

\* A share for the current job was answered while the cache was full and a
\* template had been removed for the count.
CurrentJobIsKeptSeen ==
    /\ ev.type = "read"
    /\ Len(ev.lines) = 1
    /\ ev.lines[1].method = "mining.submit"
    /\ out[ev.c][1].result = "true"
    /\ chainTip = MaxCacheTips
    /\ tip = chainTip
    /\ Cardinality(DOMAIN work_templates) = MaxTemplates

\* A rebuild removed every other template for its age.
CurrentJobIsKeptSeenAge ==
    /\ ev.rebuilt
    /\ chainTip > FirstTip
    /\ DOMAIN work_templates = {job_id}

(***************************************************************************)
(* Passwords with empty options: a comma in front, two commas in a row,    *)
(* blanks between two commas, a comma at the end.                          *)
(***************************************************************************)
EmptyOptionPasswords ==
    {<<",">>, <<",", "a", "=", "u">>, <<" ", ",", " ", "a", "=", "u">>,
     <<"a", "=", "u", ",", ",", "A">>, <<"a", "=", "u", ",", " ", ",", "A">>,
     <<"a", "=", "u", ",">>, <<" ">>}

InitEmpty == InitWith({Config(FALSE, TRUE, 0)}, {0})

NextEmpty ==
    \/ \E c \in Clients : stratum_accept_conn_cb(c, TRUE)
    \/ \E c \in Clients :
          Read(c, {<<Authorize(<<"A">>, p)>> : p \in EmptyOptionPasswords}, {"ok"}, {"share"})
    \/ \E c \in Clients : stratum_event_cb(c, "eof")
    \/ BlockWatcher("ok")
    \/ NewTip(MaxTip)
    \/ AuxChange(1, MaxCommit)

SpecEmpty == InitEmpty /\ [][NextEmpty]_vars

\* C35: stratum_mining_authorize returns for every password, so that the
\* read callback that called it leaves cs_stratum again.
AuthorizeReturns == ~hung

\* The handler returns unless the password, trimmed, begins with a comma.
AuthorizeReturnsWithoutLeadingComma ==
    [][(ev'.type = "read" /\ hung') =>
          /\ Len(ev'.lines) = 1
          /\ ev'.lines[1].method = "mining.authorize"
          /\ Trim(ev'.lines[1].params[2].payload) # <<>>
          /\ Trim(ev'.lines[1].params[2].payload)[1] = ","]_vars

\* An authorize with two commas in a row, or with blanks between two
\* commas, was answered.
EmptyOptionAnswered ==
    /\ ev.type = "read"
    /\ ~hung
    /\ Len(ev.lines) = 1
    /\ ev.lines[1].method = "mining.authorize"
    /\ ev.lines[1].params[2].payload
           \in {<<"a", "=", "u", ",", ",", "A">>, <<"a", "=", "u", ",", " ", ",", "A">>}
    /\ Len(out[ev.c]) > 0

(***************************************************************************)
(* Errors in a pass of the watcher: a node that cannot hand out work, and  *)
(* sessions that subscribed to one or to two auxiliary chains.             *)
(***************************************************************************)
InitServe == InitWith({Config(FALSE, TRUE, 0)}, {0})

NextServe ==
    \/ \E c \in Clients : stratum_accept_conn_cb(c, TRUE)
    \/ \E c \in Clients :
          /\ ~sent[c].any
          /\ Read(c, IF c = Speaker THEN {<<TwoChains>>} ELSE {<<MergeMiner>>}, {"ok"},
                  {"share"})
    \/ \E ch \in Chains : AuxChange(ch, MaxCommit)
    \/ \E ready \in {"ok", "noconn"} : BlockWatcher(ready)
    \/ NewTip(MaxTip)

SpecServe == InitServe /\ [][NextServe]_vars

\* The session asks for work of more than one chain that has work.
AsksTwoChains(client) == Cardinality(DOMAIN GetMergeMineWork(client.m_mmauth, Env)) > 1

\* C36: a pass of the watcher ends with the thread still in its loop,
\* whatever error the work of a session raises, and every authorized
\* session that was sent no work at this tip is sent frames, be it an error.
WatcherOutlivesErrors ==
    [][ev'.type = "watch" =>
          /\ ~crashed'
          /\ block_watcher_thread' = "running"
          /\ \A c \in DOMAIN subscriptions :
                (subscriptions[c].m_authorized /\ subscriptions[c].m_last_tip # chainTip)
                    => out'[c] # <<>>]_vars

\* The same for the errors raised inside of GetWorkUnit: in a pass over
\* sessions none of which asks for two chains with work the thread stays
\* in its loop and every session that was sent no work at this tip is
\* served, on a node that cannot hand out work with one error frame.
WatcherOutlivesWorkErrors ==
    [][(ev'.type = "watch" /\ \A c \in DOMAIN subscriptions :
                                  subscriptions[c].m_authorized =>
                                      ~AsksTwoChains(subscriptions[c])) =>
          /\ ~crashed'
          /\ block_watcher_thread' = "running"
          /\ \A c \in DOMAIN subscriptions :
                (subscriptions[c].m_authorized /\ subscriptions[c].m_last_tip # chainTip)
                    => c \in ev'.called
          /\ \A c \in ev'.called :
                /\ out'[c] # <<>>
                /\ ev'.ready # "ok" =>
                      /\ Len(out'[c]) = 1
                      /\ out'[c][1].kind = "reply"
                      /\ out'[c][1].error # "none"]_vars

\* A pass on a node without peers sent error frames to two sessions.
WatcherOutlivesWorkErrorsSeen ==
    /\ ev.type = "watch"
    /\ ev.ready = "noconn"
    /\ ~crashed
    /\ \A c \in Clients : Len(out[c]) = 1 /\ out[c][1].error # "none"

\* The pass ended in the session that asks for two chains, before a
\* session that waits for the work of the new tip.
WatcherDied ==
    /\ ev.type = "watch"
    /\ crashed
    /\ \E c \in DOMAIN subscriptions :
          /\ subscriptions[c].m_authorized
          /\ ~AsksTwoChains(subscriptions[c])
          /\ subscriptions[c].m_last_tip # chainTip
          /\ out[c] = <<>>

(***************************************************************************)
(* The listeners, in the lives of the sessions above.                      *)
(***************************************************************************)
\* C37: no listener is freed twice and every listener of bound_listeners
\* is live, whatever connections were accepted and refused before and
\* whether or not the server was interrupted and stopped.
ListenersAreLive ==
    /\ \A l \in DOMAIN listeners : listeners[l] # "freed twice"
    /\ \A l \in bound_listeners : listeners[l] # "freed"

\* The same from step to step, but for the accept callback that refuses a
\* peer.
ListenersStayLive ==
    [][(ListenersAreLive /\ ev'.type # "reject") => ListenersAreLive']_vars

\* A peer was refused and the server has been stopped since.
ListenerFreedTwice ==
    /\ ev.type = "stop"
    /\ ~crashed
    /\ \E l \in DOMAIN listeners : listeners[l] = "freed twice"

\* After a refused peer no accept takes place any more.
RefusalEndsAccepts ==
    [][(\E l \in DOMAIN listeners : listeners[l] = "freed") => ev'.type # "accept"]_vars

(***************************************************************************)
(* second_stages and the sessions: two miners of one chain, second-stage   *)
(* work that comes, changes and goes.                                      *)
(***************************************************************************)
InitStages == InitWith({Config(FALSE, FALSE, 0)}, {0})

NextStages ==
    \/ \E c \in Clients : stratum_accept_conn_cb(c, TRUE)
    \/ \E c \in Clients :
          Read(c, {<<MergeMiner>>, <<Submit(<<":", "x">>, 1000)>>}, {"ok"}, {"share"})
    \/ \E offer \in SecondStageOffers : SecondStageChange(offer)
    \/ BlockWatcher("ok")

SpecStages == InitStages /\ [][NextStages]_vars

\* The entries of second_stages that are the work the session's
\* m_last_second_stage names.
StagesOf(client) ==
    {j \in DOMAIN second_stages :
        client.m_last_second_stage
            = SomePair(second_stages[j].first, second_stages[j].second.hashPrevBlock)}

\* C38: the second-stage job a session was sent is a key of second_stages
\* for as long as the session's m_last_second_stage names its work,
\* whatever work other sessions are sent in between.
SecondStageIsHeld ==
    \A c \in DOMAIN subscriptions :
        subscriptions[c].m_last_second_stage.some => StagesOf(subscriptions[c]) # {}

\* No entry leaves second_stages in a step taken while second-stage work
\* is on offer.
SecondStageIsHeldWhileOffered ==
    [][ssw.some => \A j \in DOMAIN second_stages : Has(second_stages', j)]_vars

\* A share for the job of the session's last second-stage notify was
\* answered as an unknown job.
SecondStageWasDropped ==
    /\ ev.type = "read"
    /\ Len(ev.lines) = 1
    /\ ev.lines[1].method = "mining.submit"
    /\ ev.replies[1].before.m_last_second_stage = SomePair(1, 7)
    /\ out[ev.c][1].result = "false"

(***************************************************************************)
(* The answer to mining.submit: a miner with and without the chain of the  *)
(* second-stage work, shares for primary and second-stage jobs that are    *)
(* held and that are not, with every outcome of the proof of work.         *)
(***************************************************************************)
AnswerLines(c) ==
    {MergeMiner, Authorize(<<"B">>, <<>>), Submit(<<":", "x">>, 1000)}
    \cup SubmitLines(c) \cup UnknownSubmits

InitAnswer == InitWith({Config(TRUE, TRUE, 0)}, {0})

NextAnswer ==
    \/ stratum_accept_conn_cb(Speaker, TRUE)
    \/ Read(Speaker, {<<l>> : l \in AnswerLines(Speaker)}, {"ok"}, Lucks)
    \/ \E offer \in {NoPair, SomePair(1, SecondStageWork(<<"x">>, 7))} :
          SecondStageChange(offer)
    \/ AuxChange(1, MaxCommit)

SpecAnswer == InitAnswer /\ [][NextAnswer]_vars

\* Line i is a well-formed mining.submit.
WellFormedSubmit(line) ==
    /\ line.method = "mining.submit"
    /\ BoundParams(line.params, 5, 6)
    /\ At(line.params, 1).t = "str"
    /\ ParseHexV(At(line.params, 2)).threw = "none"
    /\ Len(ParseHexV(At(line.params, 2)).v) = En2Len
    /\ ParseHexInt4(At(line.params, 3)).threw = "none"
    /\ ParseHexInt4(At(line.params, 4)).threw = "none"

\* C39: a mining.submit that names a job that is held, primary or
\* second-stage, is answered true whatever became of the share, and the
\* answer false is given only to a share of a job that is not held.
SubmitIsAnsweredTrue ==
    [][ev'.type = "read" =>
          \A i \in 1 .. Len(ev'.replies) :
              LET line == ev'.lines[i]
                  r == ev'.replies[i]
                  held == \/ SecondStageSubmit(line, second_stages)
                          \/ CachedJobSubmit(line, work_templates)
              IN /\ held =>
                       /\ r.threw = "none"
                       /\ Len(r.frames) = 1
                       /\ r.frames[1].kind = "reply"
                       /\ r.frames[1].error = "none"
                       /\ r.frames[1].result = "true"
                 /\ (/\ WellFormedSubmit(line)
                     /\ r.threw = "none"
                     /\ r.frames[1].result = "false") => ~held]_vars

\* A second-stage share of a session without the chain was dropped and
\* answered true.
SubmitIsAnsweredTrueSeen ==
    /\ ev.type = "read"
    /\ Len(ev.lines) = 1
    /\ SecondStageSubmit(ev.lines[1], second_stages)
    /\ ~Has(ev.replies[1].before.m_mmauth, 1)
    /\ ev.replies[1].calls = <<>>
    /\ ev.replies[1].frames[1].result = "true"

\* A block that ProcessNewBlock refused, and a share below the target, each
\* answered true; a share of a job that is not held answered false.
RefusedBlockAnsweredTrue ==
    /\ ev.type = "read"
    /\ Len(ev.lines) = 1
    /\ CachedJobSubmit(ev.lines[1], work_templates)
    /\ Len(ev.replies[1].shares) = 1
    /\ ev.replies[1].shares[1].pow /\ ~ev.replies[1].shares[1].res
    /\ ev.replies[1].frames[1].result = "true"
LowShareAnsweredTrue ==
    /\ ev.type = "read"
    /\ Len(ev.lines) = 1
    /\ SecondStageSubmit(ev.lines[1], second_stages)
    /\ Len(ev.replies[1].shares) = 1
    /\ ev.replies[1].calls # <<>>
    /\ ~ev.send_work
    /\ ev.replies[1].frames[1].result = "true"
UnknownAnsweredFalse ==
    /\ ev.type = "read"
    /\ Len(ev.lines) = 1
    /\ WellFormedSubmit(ev.lines[1])
    /\ ev.replies[1].frames[1].result = "false"

(***************************************************************************)
(* The block header of a share (sharechain.cpp).                           *)
(*                                                                         *)
(* Hashes are injective: a hash is the tagged tuple of what was written.   *)
(* A share carries its header fields and the witness `wit` that ties it to *)
(* a block: the coinbase prefix cb1, the lock time, the Merkle map branch  *)
(* `commit` and key `share_chain_path` of the share chain commitment, the  *)
(* Merkle branch of the coinbase, and the fields of the block header.      *)
(***************************************************************************)
Hash256(tag, data) == <<tag, data>>

\* ComputeMerkleMapRootFromBranch(leaf, branch, key, &invalid): the root of
\* the Merkle map holding `leaf` under `key`.
ComputeMerkleMapRootFromBranch(leaf, branch, key) == <<"map", leaf, branch, key>>

\* CHashWriter::GetHash() of a writer whose hash was already taken: a value
\* fixed by what was written to that writer, and by nothing else.
GetHashAgain(hash) == <<"again", hash>>

ShareChainId == <<75, 74, 73, 72>>

GetBlockHeader(share) ==
    LET wit == share.wit
        ss == <<share.version, share.bits, share.height, share.total_work,
                share.prev_shares,
                share.miner.version, Len(share.miner.program), share.miner.program>>
        header == Hash256("share", ss)
        root == ComputeMerkleMapRootFromBranch(header, wit.commit, wit.share_chain_path)
        \* What is written to the coinbase hasher h; h is never finalized.
        h == <<wit.cb1, root, ShareChainId, wit.nLockTime>>
        hash == GetHashAgain(header)
    IN [nVersion |-> wit.nVersion,
        hashPrevBlock |-> wit.hashPrevBlock,
        hashMerkleRoot |-> ComputeMerkleRootFromBranch(hash, wit.branch),
        nTime |-> wit.nTime,
        nBits |-> wit.nBits,
        nNonce |-> wit.nNonce]

\* The values a field of a share takes here; "header" stands for the height
\* and the total work of the share header.
ShareValues(f) ==
    IF f = "header" THEN {1, 2}
    ELSE IF f = "commit" THEN {<<>>, <<9>>}
    ELSE IF f = "cb1" THEN {<<1>>, <<1, 2>>}
    ELSE IF f = "branch" THEN {<<>>, <<8>>}
    ELSE IF f = "nTime" THEN {10}
    ELSE {0, 1}

Shares ==
    { [version |-> 1, bits |-> 1, height |-> hh, total_work |-> hh, prev_shares |-> 0,
       miner |-> [version |-> 0, program |-> <<7>>],
       wit |-> [commit |-> cm, cb1 |-> cb, nLockTime |-> lt, branch |-> br,
                nVersion |-> 2, hashPrevBlock |-> 3, share_chain_path |-> pa,
                nTime |-> nt, nBits |-> 1, nNonce |-> nn]] :
      hh \in ShareValues("header"), cm \in ShareValues("commit"), cb \in ShareValues("cb1"),
      lt \in ShareValues("nLockTime"), br \in ShareValues("branch"),
      pa \in ShareValues("share_chain_path"), nt \in ShareValues("nTime"),
      nn \in ShareValues("nNonce") }

CoinbaseFields == {"cb1", "nLockTime", "commit", "share_chain_path"}
WitnessFields == CoinbaseFields \cup
                 {"branch", "nVersion", "hashPrevBlock", "nTime", "nBits", "nNonce"}
VariedFields == CoinbaseFields \cup {"branch", "nNonce", "header"}

\* The share with one field set to another value.
Vary(share, f, v) ==
    IF f = "header" THEN [share EXCEPT !.height = v, !.total_work = v]
    ELSE [share EXCEPT !.wit[f] = v]

\* The fields of the witness in which two shares differ, and "header" if
\* they differ outside the witness.
DifferIn(a, b) ==
    { f \in WitnessFields : a.wit[f] # b.wit[f] } \cup
    (IF [a EXCEPT !.wit = b.wit] # b THEN {"header"} ELSE {})

\* GetBlockHeader of two shares that differ in at most one field.
HeaderStep ==
    /\ \E a \in Shares, f \in VariedFields :
         \E v \in ShareValues(f) :
            ev' = [Event("header", 0) EXCEPT
                     !.calls = <<[call |-> "GetBlockHeader", share |-> a,
                                  ret |-> GetBlockHeader(a)],
                                 [call |-> "GetBlockHeader", share |-> Vary(a, f, v),
                                  ret |-> GetBlockHeader(Vary(a, f, v))]>>]
    /\ UNCHANGED <<envVars, srvVars, out, sent>>

InitHeader == InitWith({Config(FALSE, FALSE, 0)}, {0})
NextHeader == HeaderStep
SpecHeader == InitHeader /\ [][NextHeader]_vars

CopiesWitness(call) ==
    /\ call.ret.nVersion = call.share.wit.nVersion
    /\ call.ret.hashPrevBlock = call.share.wit.hashPrevBlock
    /\ call.ret.nTime = call.share.wit.nTime
    /\ call.ret.nBits = call.share.wit.nBits
    /\ call.ret.nNonce = call.share.wit.nNonce

\* C40 as stated: two shares that differ only in wit.cb1, wit.nLockTime,
\* wit.commit or wit.share_chain_path have block headers with different
\* hashMerkleRoot, and nVersion, hashPrevBlock, nTime, nBits and nNonce of a
\* block header are those of the share's witness.
HeaderCommitsToCoinbase ==
    ev.type = "header" =>
        /\ CopiesWitness(ev.calls[1]) /\ CopiesWitness(ev.calls[2])
        /\ ( /\ ev.calls[1].share # ev.calls[2].share
             /\ DifferIn(ev.calls[1].share, ev.calls[2].share) \subseteq CoinbaseFields )
           => ev.calls[1].ret.hashMerkleRoot # ev.calls[2].ret.hashMerkleRoot

\* What holds of the header: the five fields are those of the witness, and
\* hashMerkleRoot differs for two shares exactly when they differ outside
\* the witness or in wit.branch.
HeaderCommitsToShareHeader ==
    ev.type = "header" =>
        /\ CopiesWitness(ev.calls[1]) /\ CopiesWitness(ev.calls[2])
        /\ ev.calls[1].ret.hashMerkleRoot # ev.calls[2].ret.hashMerkleRoot
           <=> DifferIn(ev.calls[1].share, ev.calls[2].share) \cap {"header", "branch"} # {}

\* Two shares with different coinbase prefixes and the same hashMerkleRoot;
\* two shares of different heights with different hashMerkleRoot.
CoinbaseIsNotCommitted ==
    /\ ev.type = "header"
    /\ DifferIn(ev.calls[1].share, ev.calls[2].share) = {"cb1"}
    /\ ev.calls[1].ret.hashMerkleRoot = ev.calls[2].ret.hashMerkleRoot
ShareHeaderIsCommitted ==
    /\ ev.type = "header"
    /\ DifferIn(ev.calls[1].share, ev.calls[2].share) = {"header"}
    /\ ev.calls[1].ret.hashMerkleRoot # ev.calls[2].ret.hashMerkleRoot

====
